---- MODULE Spec2Model ----
(***************************************************************************)
(* BananaMD: a state-machine model of the generation orchestrator (App),   *)
(* its per-slot version histories and the retry-wrapped service caller     *)
(* (services/genai.ts).                                                    *)
(*                                                                         *)
(* Two specifications share the module:                                    *)
(*   SpecRetry - one run of generateContentWithRetry against a service     *)
(*               whose outcome at each attempt is chosen by the            *)
(*               environment;                                              *)
(*   Spec      - the App component: React state, the mutable objects the   *)
(*               state points to, and the asynchronous operations in       *)
(*               flight with the values their closures captured;           *)
(*   SpecDoc   - one document, character by character: the extractor of    *)
(*               parseAndFindReferences and the caption loop and rebuild   *)
(*               of handleBuildExports.                                    *)
(***************************************************************************)
EXTENDS Integers, Sequences, FiniteSets, TLC

VARIABLES
    \* ---- generateContentWithRetry (one invocation) ----
    rPc,            \* "off" | "call" | "wait" | "returned" | "thrown"
    rI,             \* the loop variable i
    rLastError,     \* lastError
    rResult,        \* the response returned, or the error thrown
    rLog,           \* outcome of every ai.models.generateContent call so far
    rDelays,        \* the setTimeout delays waited so far
    \* ---- App: React state (useState / useRef) ----
    view,                   \* 'upload' | 'generation'
    markdownFile,           \* a file is chosen (File | null)
    markdownContent,        \* the document text is loaded (string | null)
    styleImageFile,         \* a style image is uploaded (File | null)
    styleReferenceImage,    \* Part | undefined: NoImage or the captured image
    maintainStyle,
    templates,              \* the prompt templates are loaded
    imageReferences,        \* the state array: a sequence of object ids
    currentReferenceIndex,  \* number | null (NoIndex)
    generationTriggered,    \* useRef(new Set<number>())
    exportTriggered,        \* useRef(false)
    exporting,
    exportError,
    zipUrl,                 \* NULL or the session of the export that built it
    \* ---- App: the mutable objects the state points to ----
    objs,                   \* ImageReference objects, by object id
    hists,                  \* ImageHistory objects, by object id
    arrs,                   \* generatedImages arrays, by object id
    \* ---- App: asynchronous operations in flight, with their closures ----
    pipelines,              \* triggerGenerationForIndex invocations
    edits,                  \* handleEditInstruction invocations
    regens,                 \* handleRegenerateImage invocations
    timers,                 \* setTimeout(handleNext, 300) callbacks
    exportRun,              \* the handleBuildExports invocation, or NoRun
    staleDom,               \* slots whose rendering lags behind the state
    allSelectedMemo,        \* the cached value of the allImagesSelected memo
    \* ---- bookkeeping of the model (not program state) ----
    session,                \* number of parses / Start Overs so far
    started,                \* pipelines started per index since the session began
    budget,                 \* remaining user operations, per kind
    \* ---- one document, from its upload to its export ----
    document                \* the text, the archive, the references, the export

retryVars == <<rPc, rI, rLastError, rResult, rLog, rDelays>>

reactVars == <<view, markdownFile, markdownContent, styleImageFile,
             styleReferenceImage, maintainStyle, templates, imageReferences,
             currentReferenceIndex, generationTriggered, exportTriggered,
             exporting, exportError, zipUrl, objs, hists, arrs, pipelines,
             edits, regens, timers, exportRun, staleDom, allSelectedMemo,
             session, started,
             budget>>

appVars == <<reactVars, document>>

vars == <<rPc, rI, rLastError, rResult, rLog, rDelays,
          view, markdownFile, markdownContent, styleImageFile,
          styleReferenceImage, maintainStyle, templates, imageReferences,
          currentReferenceIndex, generationTriggered, exportTriggered,
          exporting, exportError, zipUrl, objs, hists, arrs, pipelines,
          edits, regens, timers, exportRun, staleDom, allSelectedMemo,
             session, started,
          budget, document>>

NULL == 0
NoValue == [id |-> "none"]

(***************************************************************************)
(*                              The App                                    *)
(***************************************************************************)


\* ---- bounds of the model ----
MaxRefs == 2        \* placeholders in a document
MaxParses == 2      \* documents parsed in one run
MaxEdits == 3       \* edit instructions submitted in one run
MaxNavs == 2        \* clicks on a version arrow in one run
MaxRegens == 1      \* "Try again" clicks in one run
MaxSelects == 2     \* selections (click or arrow key) in one run
MaxFails == 1       \* service calls that fail or deliver a bad payload
MaxImgErrors == 1   \* <img> elements that fail to decode

Indices == 0..(MaxRefs - 1)

Statuses == {"to-generate", "existing"}

\* a document is the sequence of the statuses of its placeholders
DocsUpTo(n) == UNION {[1..k -> Statuses] : k \in 0..n}
SingleDocs == [1..1 -> Statuses]
AllToGenerate(n) == [i \in 1..n |-> "to-generate"]

(***************************************************************************)
(* A run follows one of these scenarios: what the user and the services    *)
(* may do in it.  Each bounds the run by counters that the actions spend.  *)
(* chat: typeof ai.chats?.create === 'function' in the SDK that is loaded. *)
(***************************************************************************)
Quiet ==
    [parses |-> 1, edits |-> 0, navs |-> 0, regens |-> 0, selects |-> 0,
     fails |-> 0, imgErrors |-> 0, style |-> FALSE, chat |-> TRUE,
     docs |-> {}]

\* any document, selection and export, retry of a failed slot
FlowProfile ==
    [Quiet EXCEPT !.regens = MaxRegens, !.selects = MaxSelects,
                  !.fails = MaxFails, !.docs = DocsUpTo(MaxRefs)]

\* one placeholder, its version histories
HistoryProfile ==
    [Quiet EXCEPT !.edits = MaxEdits, !.navs = MaxNavs, !.selects = 1,
                  !.fails = MaxFails, !.docs = SingleDocs]

\* several placeholders worked on at once
PairProfile ==
    [Quiet EXCEPT !.edits = MaxEdits - 1, !.navs = MaxNavs - 1,
                  !.regens = MaxRegens, !.fails = MaxFails,
                  !.docs = {AllToGenerate(MaxRefs)}]

\* Start Over and a second document
SessionsProfile ==
    [Quiet EXCEPT !.parses = MaxParses, !.selects = 1,
                  !.docs = {AllToGenerate(1), AllToGenerate(MaxRefs)}]

SessionsEditProfile ==
    [Quiet EXCEPT !.parses = MaxParses, !.edits = 1, !.selects = 1,
                  !.docs = {AllToGenerate(1)}]

\* a call of the first document fails after Start Over
SessionsFailProfile ==
    [Quiet EXCEPT !.parses = MaxParses, !.fails = MaxFails,
                  !.docs = {AllToGenerate(1)}]

\* the style reference
StyleProfile ==
    [Quiet EXCEPT !.selects = MaxSelects, !.imgErrors = MaxImgErrors,
                  !.style = TRUE, !.docs = {AllToGenerate(MaxRefs)}]

\* (with an SDK that has no chats.create)
StyleEditProfile ==
    [Quiet EXCEPT !.edits = 1, !.selects = 1, !.fails = MaxFails,
                  !.style = TRUE, !.chat = FALSE, !.docs = SingleDocs]

\* a placeholder with a source image, edited while its pipeline still reads
\* the uploaded style image
EarlyEditProfile ==
    [Quiet EXCEPT !.edits = MaxEdits - 1, !.style = TRUE,
                  !.docs = {[i \in 1..1 |-> "existing"]}]

\* Start Over after a style reference was captured, and a second document
StyleSessionsProfile ==
    [Quiet EXCEPT !.parses = MaxParses, !.selects = 1, !.style = TRUE,
                  !.docs = {AllToGenerate(1)}]

Profiles ==
    {FlowProfile, HistoryProfile, PairProfile, SessionsProfile,
     SessionsEditProfile, SessionsFailProfile, StyleProfile, StyleEditProfile, EarlyEditProfile,
     StyleSessionsProfile}

NoIndex == -1       \* currentReferenceIndex === null
NoSel == -1         \* selectedIndex undefined / null
Slots == {0, 1}

Range(f) == {f[x] : x \in DOMAIN f}

\* the smallest positive number not in dom (a fresh object id)
FreshId(dom) ==
    CHOOSE k \in 1..(Cardinality(dom) + 1) :
        k \notin dom /\ \A j \in 1..(k - 1) : j \in dom

(***************************************************************************)
(* Images.  A payload is a data URL; the model keeps whether its prefix    *)
(* matches /^data:image\/(png|jpeg|jpg|webp|gif);base64,/, its length, and *)
(* which call produced it (kind, session, placeholder, slot, version).     *)
(***************************************************************************)
MinImageLength == 200

Img(kind, sess, idx, slot, ver) ==
    [prefixOk |-> TRUE, len |-> MinImageLength, kind |-> kind, sess |-> sess,
     idx |-> idx, slot |-> slot, ver |-> ver]

NoImage ==
    [prefixOk |-> FALSE, len |-> 0, kind |-> "none", sess |-> 0,
     idx |-> 0, slot |-> 0, ver |-> 0]

\* what a call that produces the image good may deliver instead of it
Payloads(good) ==
    { good,
      [good EXCEPT !.prefixOk = FALSE],
      [good EXCEPT !.len = MinImageLength - 1] }

\* a service call either throws or delivers a payload
Outcomes(good) ==
    {[threw |-> TRUE, img |-> NoImage]} \cup
    {[threw |-> FALSE, img |-> p] : p \in Payloads(good)}

\* the outcome in which the call delivers the image asked for
Good(good) == [threw |-> FALSE, img |-> good]

\* 1 for an outcome that spends one of the failures the run is allowed
Bad(out) == IF ~out.threw /\ out.img.prefixOk /\ out.img.len >= MinImageLength
            THEN 0 ELSE 1

\* the outcomes a call may have while the run has n failures left
OutcomesWithin(n, good) == {out \in Outcomes(good) : Bad(out) <= n}

\* the results of a call that succeeds or fails, with n failures left
OksWithin(n) == IF n > 0 THEN BOOLEAN ELSE {TRUE}

normalizeImage(img) ==
    IF img = NoImage THEN NoImage
    ELSE IF ~img.prefixOk THEN NoImage
    ELSE IF img.len < MinImageLength THEN NoImage
    ELSE img

\* promise.catch(e => null)
CatchNull(outcome) == IF outcome.threw THEN NoImage ELSE outcome.img

(***************************************************************************)
(* Objects.                                                                *)
(***************************************************************************)
\* an ImageReference as pushed by parseAndFindReferences
NewReference(status, sess, idx) ==
    [status |-> status,
     originalImage |-> IF status = "existing" THEN Img("orig", sess, idx, 0, 0)
                       ELSE NoImage,
     isGeneratingPrompts |-> FALSE, proposedPrompts |-> FALSE,
     isGeneratingImages |-> FALSE, generatedImages |-> NULL,
     generationError |-> FALSE,
     isGeneratingImproved |-> FALSE, generatedImproved |-> NoImage,
     isGeneratingVariation |-> FALSE, generatedVariation |-> NoImage,
     selectedIndex |-> NoSel, isRetrying |-> FALSE,
     histories |-> <<>>,
     loadErrors |-> [k \in Slots |-> FALSE],
     sess |-> sess, idx |-> idx]

\* const id = `${Date.now()}-${Math.random()...}`: an id no node of the
\* history has yet (the clock and the random suffix are taken to differ)
NewNodeId(nodes) == FreshId(DOMAIN nodes)

\* const node = { id, imageData: img, parentId: null, childrenIds: [], ... }
\* return { nodes: { [id]: node }, rootId: id, currentId: id, order: [id] }
\* (gEdits, gNav: bookkeeping of the model - edits appended, navigations made;
\* seeded: the nodes n of this history for which chatSessions holds an entry
\* with seededWithImageId under the branch key `${lineNumber}-${slot}-${n}`)
NewHistory(img) ==
    LET id == NewNodeId(<<>>)
    IN [nodes |-> [n \in {id} |->
                     [imageData |-> img, parentId |-> NULL, childrenIds |-> <<>>]],
        rootId |-> id, currentId |-> id, order |-> <<id>>,
        isEditing |-> FALSE, error |-> FALSE,
        gEdits |-> 0, gNav |-> FALSE, seeded |-> {}]

(***************************************************************************)
(* The state as one record, so that a handler is a function from state to  *)
(* state and the effects React runs after the handler compose with it.     *)
(* dirty: setImageReferences was called with a new array in this step.     *)
(***************************************************************************)
State ==
    [view |-> view, markdownFile |-> markdownFile,
     markdownContent |-> markdownContent, styleImageFile |-> styleImageFile,
     styleReferenceImage |-> styleReferenceImage,
     maintainStyle |-> maintainStyle, templates |-> templates,
     imageReferences |-> imageReferences,
     currentReferenceIndex |-> currentReferenceIndex,
     generationTriggered |-> generationTriggered,
     exportTriggered |-> exportTriggered, exporting |-> exporting,
     exportError |-> exportError, zipUrl |-> zipUrl,
     objs |-> objs, hists |-> hists, arrs |-> arrs,
     pipelines |-> pipelines, edits |-> edits, regens |-> regens,
     timers |-> timers, exportRun |-> exportRun, staleDom |-> staleDom,
     allSelectedMemo |-> allSelectedMemo,
     session |-> session, started |-> started, budget |-> budget,
     dirty |-> FALSE]

\* no document is followed character by character
NoDocument == [pc |-> "off"]

NoRun == [on |-> FALSE, pos |-> 0, sorted |-> <<>>, sess |-> 0]

\* imageReferences[index], or NULL when index is out of range (undefined)
RefId(s, index) ==
    IF index >= 0 /\ index < Len(s.imageReferences)
    THEN s.imageReferences[index + 1] ELSE NULL

Ref(s, index) == s.objs[RefId(s, index)]

\* ref.histories?.[k] || null
HistId(s, o, k) ==
    IF k \in DOMAIN s.objs[o].histories THEN s.objs[o].histories[k] ELSE NULL

\* ref.generatedImages?.[k] || null
GeneratedImage(s, o, k) ==
    IF s.objs[o].generatedImages = NULL THEN NoImage
    ELSE s.arrs[s.objs[o].generatedImages][k]

\* hist.nodes[hist.currentId].imageData
CurrentImage(h) == h.nodes[h.currentId].imageData

\* ---- allocation ----
Extend(f, id, rec) == [x \in DOMAIN f \cup {id} |-> IF x = id THEN rec ELSE f[x]]

AllocObj(s, rec) ==
    LET id == FreshId(DOMAIN s.objs)
    IN [id |-> id, s |-> [s EXCEPT !.objs = Extend(@, id, rec)]]

AllocHist(s, rec) ==
    LET id == FreshId(DOMAIN s.hists)
    IN [id |-> id, s |-> [s EXCEPT !.hists = Extend(@, id, rec)]]

AllocArr(s, rec) ==
    LET id == FreshId(DOMAIN s.arrs)
    IN [id |-> id, s |-> [s EXCEPT !.arrs = Extend(@, id, rec)]]

\* ---- objects no closure and no state can reach any more are dropped ----
ReachObjs(s) ==
    Range(s.imageReferences)
      \cup UNION {Range(e.updated) : e \in s.edits}
      \cup UNION {Range(g.updatedReferences) : g \in s.regens}
      \cup Range(s.exportRun.sorted)

ReachHists(s) ==
    UNION {Range(s.objs[o].histories) : o \in ReachObjs(s)} \cup
    {e.history : e \in s.edits}

ReachArrs(s) == {s.objs[o].generatedImages : o \in ReachObjs(s)}

Collect(s) ==
    LET ro == ReachObjs(s)
        s1 == [s EXCEPT !.objs = [o \in ro |-> s.objs[o]]]
        rh == ReachHists(s1) \ {NULL}
        ra == ReachArrs(s1) \ {NULL}
    IN [s1 EXCEPT !.hists = [h \in rh |-> s.hists[h]],
                  !.arrs  = [a \in ra |-> s.arrs[a]]]

\* setImageReferences(arr) with an array that is not the state's array:
\* no handleRegenerateImage in flight holds the state's array any more
setImageReferences(s, arr) ==
    [s EXCEPT !.imageReferences = arr,
              !.dirty = TRUE,
              !.regens = {[g EXCEPT !.sameArr = FALSE] : g \in @}]

\* setImageReferences(prev => prev.map((r, i) => i === index ? {...r, <changes>} : r))
\* rec is the object {...r, <changes>}; out of range, the array is only copied
ReplaceAt(s, index, rec) ==
    IF RefId(s, index) = NULL THEN setImageReferences(s, s.imageReferences)
    ELSE LET a == AllocObj(s, rec)
         IN setImageReferences(a.s, [a.s.imageReferences EXCEPT ![index + 1] = a.id])

(***************************************************************************)
(* allImagesSelected (useMemo over imageReferences)                        *)
(***************************************************************************)
\* the image the memo finds for reference object o and slot idx
SelectedImage(s, o, idx) ==
    LET ref == s.objs[o]
        hist == HistId(s, o, idx)
    IN IF hist # NULL THEN CurrentImage(s.hists[hist])
       ELSE IF ref.status = "to-generate" THEN GeneratedImage(s, o, idx)
       ELSE IF idx = 0 THEN ref.generatedImproved
       ELSE ref.generatedVariation

allImagesSelected_IgnoreImage(s) ==
    /\ Len(s.imageReferences) > 0
    /\ \A i \in 1..Len(s.imageReferences) :
          s.objs[s.imageReferences[i]].selectedIndex # NoSel

allImagesSelected(s) ==
    /\ Len(s.imageReferences) > 0
    /\ \A i \in 1..Len(s.imageReferences) :
          LET o == s.imageReferences[i]
              idx == s.objs[o].selectedIndex
          IN /\ idx # NoSel
             /\ SelectedImage(s, o, idx) # NoImage

(***************************************************************************)
(* handleBuildExports and the effect that starts it                        *)
(***************************************************************************)
\* getSelectedImageData(ref).img for the reference object o
getSelectedImageData(s, o) ==
    LET ref == s.objs[o]
        idx == IF ref.status = "to-generate" THEN ref.selectedIndex
               ELSE IF ref.selectedIndex = NoSel THEN 0 ELSE ref.selectedIndex
    IN IF idx = NoSel THEN NoImage ELSE SelectedImage(s, o, idx)

\* catch (e) { setExportError(...) } finally { setExporting(false) }
ExportFail(s) ==
    [s EXCEPT !.exportError = TRUE, !.exporting = FALSE, !.exportRun = NoRun]

\* the loop of handleBuildExports arrives at reference number pos of sorted:
\* parseDataUrl(img) throws on a missing image and createFilenameAndDescription
\* on missing templates, else the caption call is issued
ExportVisit(s, run) ==
    IF getSelectedImageData(s, run.sorted[run.pos + 1]) = NoImage
    THEN ExportFail(s)
    ELSE IF ~s.templates THEN ExportFail(s)
    ELSE [s EXCEPT !.exportRun = run]

\* if (!markdownContent) return; setExporting(true); ... up to the first await
handleBuildExports(s) ==
    IF ~s.markdownContent THEN s
    ELSE ExportVisit([s EXCEPT !.exporting = TRUE, !.exportError = FALSE,
                               !.zipUrl = NULL],
                     [on |-> TRUE, pos |-> 0, sorted |-> s.imageReferences,
                      sess |-> s.session])

\* useEffect(..., [allImagesSelected, exporting, zipUrl])
ExportEffect(s) ==
    IF s.allSelectedMemo /\ ~s.exportTriggered /\ ~s.exporting /\ s.zipUrl = NULL
    THEN handleBuildExports([s EXCEPT !.exportTriggered = TRUE])
    ELSE s

(***************************************************************************)
(* triggerGenerationForIndex and the effect that calls it                  *)
(***************************************************************************)
\* the file the user uploaded as style reference, as a Part
UploadedStyle == Img("upload", 0, 0, 0, 0)

\* catch (error) { setImageReferences(prev => prev.map(... generationError ...)) }
PipelineFail(s, index) ==
    ReplaceAt(s, index,
        [Ref(s, index) EXCEPT !.isGeneratingPrompts = FALSE,
                              !.isGeneratingImages = FALSE,
                              !.generationError = TRUE])

\* the part of triggerGenerationForIndex after styleImagePart is known, up to
\* its first service call
PipelineBegin(s, p) ==
    LET s1 == IF p.status = "existing"
              THEN ReplaceAt(s, p.index,
                      [Ref(s, p.index) EXCEPT !.isGeneratingImproved = TRUE,
                                              !.isGeneratingVariation = TRUE])
              ELSE ReplaceAt(s, p.index,
                      [Ref(s, p.index) EXCEPT !.isGeneratingPrompts = TRUE,
                                              !.generationError = FALSE])
        pc == IF p.status = "existing" THEN "improve" ELSE "prompts"
    IN [s1 EXCEPT !.pipelines = @ \cup {[p EXCEPT !.pc = pc]}]

AlreadyTriggered_Never(s, index) == FALSE

\* generationTriggered.current.has(index)
AlreadyTriggered(s, index) == index \in s.generationTriggered

triggerGenerationForIndex(s, index) ==
    IF AlreadyTriggered(s, index) THEN s
    ELSE IF RefId(s, index) = NULL THEN s
    ELSE LET ref == Ref(s, index)
             s1 == [s EXCEPT !.generationTriggered = @ \cup {index},
                             !.started[index] = @ + 1]
             p == [sess |-> s.session, index |-> index, status |-> ref.status,
                   pc |-> "style", style |-> s.styleReferenceImage,
                   improved |-> NoImage]
         IN IF ~s.templates \/ ~s.markdownContent
            THEN PipelineFail(s1, index)
            ELSE IF s.styleReferenceImage = NoImage /\ s.styleImageFile
            THEN \* await fileToGenerativePart(styleImageFile)
                 [s1 EXCEPT !.pipelines = @ \cup {p}]
            ELSE PipelineBegin(s1, p)

\* useEffect(..., [currentReferenceIndex, imageReferences, templates, ...])
GenerationEffect(s) ==
    IF s.currentReferenceIndex # NoIndex
    THEN triggerGenerationForIndex(s, s.currentReferenceIndex)
    ELSE s

(***************************************************************************)
(* Committing a step.  React renders (the memo is recomputed when          *)
(* setImageReferences was given a new array) and runs the effects in the   *)
(* order of their declaration; the generation effect's own                 *)
(* setImageReferences renders once more.                                   *)
(***************************************************************************)
Recompute(s) ==
    IF s.dirty
    THEN [s EXCEPT !.allSelectedMemo = allImagesSelected(s), !.dirty = FALSE]
    ELSE s

\* the results section reads imageReferences[currentReferenceIndex].lineNumber:
\* a TypeError when the index is beyond the array
RenderThrows(s) ==
    /\ s.view = "generation"
    /\ ~s.allSelectedMemo
    /\ s.currentReferenceIndex # NoIndex
    /\ Len(s.imageReferences) > 0
    /\ RefId(s, s.currentReferenceIndex) = NULL

\* no error boundary: React unmounts the tree; no effect runs any more and
\* what the pending continuations set is dropped
Unmounted(s) ==
    [s EXCEPT !.view = "crashed", !.pipelines = {}, !.edits = {}, !.regens = {},
              !.timers = {}, !.exportRun = NoRun, !.dirty = FALSE]

\* the second render, after the generation effect's own setImageReferences
Rendered2(s) == IF RenderThrows(s) THEN Unmounted(s) ELSE ExportEffect(s)

RenderAgain(s) == IF s.dirty THEN Rendered2(Recompute(s)) ELSE s

\* the render and the effects that follow it
Rendered1(s) ==
    IF RenderThrows(s) THEN Unmounted(s)
    ELSE RenderAgain(GenerationEffect(ExportEffect(s)))

Render(s) == Rendered1(Recompute([s EXCEPT !.staleDom = {}]))

Install(s0) ==
    \E s \in {Collect(s0)} :
       /\ view' = s.view
       /\ markdownFile' = s.markdownFile
       /\ markdownContent' = s.markdownContent
       /\ styleImageFile' = s.styleImageFile
       /\ styleReferenceImage' = s.styleReferenceImage
       /\ maintainStyle' = s.maintainStyle
       /\ templates' = s.templates
       /\ imageReferences' = s.imageReferences
       /\ currentReferenceIndex' = s.currentReferenceIndex
       /\ generationTriggered' = s.generationTriggered
       /\ exportTriggered' = s.exportTriggered
       /\ exporting' = s.exporting
       /\ exportError' = s.exportError
       /\ zipUrl' = s.zipUrl
       /\ objs' = s.objs
       /\ hists' = s.hists
       /\ arrs' = s.arrs
       /\ pipelines' = s.pipelines
       /\ edits' = s.edits
       /\ regens' = s.regens
       /\ timers' = s.timers
       /\ exportRun' = s.exportRun
       /\ staleDom' = s.staleDom
       /\ allSelectedMemo' = s.allSelectedMemo
       /\ session' = s.session
       /\ started' = s.started
       /\ budget' = s.budget
       /\ UNCHANGED <<retryVars, document>>

Commit(s) == Install(Render(s))

(***************************************************************************)
(* Init: the App as mounted.  The budget bounds what the user and the      *)
(* environment do in one run.                                              *)
(***************************************************************************)
AppMounted ==
    /\ view = "upload"
    /\ markdownFile = FALSE
    /\ markdownContent = FALSE
    /\ styleImageFile = FALSE
    /\ styleReferenceImage = NoImage
    /\ maintainStyle = FALSE
    /\ templates = FALSE
    /\ imageReferences = <<>>
    /\ currentReferenceIndex = NoIndex
    /\ generationTriggered = {}
    /\ exportTriggered = FALSE
    /\ exporting = FALSE
    /\ exportError = FALSE
    /\ zipUrl = NULL
    /\ objs = <<>>
    /\ hists = <<>>
    /\ arrs = <<>>
    /\ pipelines = {}
    /\ edits = {}
    /\ regens = {}
    /\ timers = {}
    /\ exportRun = NoRun
    /\ staleDom = {}
    /\ allSelectedMemo = FALSE
    /\ session = 0
    /\ started = [i \in Indices |-> 0]

Init ==
    /\ rPc = "off" /\ rI = 0 /\ rLastError = NoValue /\ rResult = NoValue
    /\ rLog = <<>> /\ rDelays = <<>>
    /\ AppMounted
    /\ budget \in Profiles
    /\ document = NoDocument

(***************************************************************************)
(* The upload view                                                         *)
(***************************************************************************)
\* loadTemplates: the four fetches succeed (at any time after the mount, or
\* never)
LoadTemplates ==
    /\ ~templates
    /\ Commit([State EXCEPT !.templates = TRUE])

\* handleMarkdownSelect(file) with a .md file or a .zip holding one
handleMarkdownSelect(s) ==
    setImageReferences([s EXCEPT !.markdownFile = TRUE,
                                 !.markdownContent = FALSE,
                                 !.currentReferenceIndex = NoIndex], <<>>)

HandleMarkdownSelect ==
    /\ view = "upload"
    /\ ~markdownFile
    /\ budget.parses > 0
    /\ Commit(handleMarkdownSelect(State))

\* the style DropZone: onFileSelect={setStyleImageFile}
\* (disabled={maintainStyle && styleReferenceImage})
SetStyleImageFile ==
    /\ view = "upload"
    /\ budget.style
    /\ ~styleImageFile
    /\ ~(maintainStyle /\ styleReferenceImage # NoImage)
    /\ Commit([State EXCEPT !.styleImageFile = TRUE])

\* the checkbox: onChange={(e) => setMaintainStyle(e.target.checked)}
SetMaintainStyle ==
    /\ view = "upload"
    /\ budget.style
    /\ ~(currentReferenceIndex # NoIndex /\ currentReferenceIndex > 0)
    /\ ~maintainStyle
    /\ Commit([State EXCEPT !.maintainStyle = TRUE])

\* references.push(...) for each placeholder found
RECURSIVE PushReferences(_, _, _)
PushReferences(s, doc, i) ==
    IF i > Len(doc) THEN s
    ELSE LET a == AllocObj(s, NewReference(doc[i], s.session, i - 1))
         IN PushReferences([a.s EXCEPT !.imageReferences = Append(@, a.id)],
                           doc, i + 1)

\* doc: the status of each placeholder the two regular expressions find
parseAndFindReferences(s, doc) ==
    LET s1 == setImageReferences(
                 [s EXCEPT !.currentReferenceIndex = NoIndex,
                           !.generationTriggered = {},
                           !.markdownContent = TRUE,
                           !.session = @ + 1,
                           !.started = [i \in Indices |-> 0],
                           !.budget.parses = @ - 1], <<>>)
        s2 == PushReferences(s1, doc, 1)
    IN IF Len(doc) > 0
       THEN [s2 EXCEPT !.currentReferenceIndex = 0, !.view = "generation"]
       ELSE s2

\* the "Find Images & Generate" button (disabled while isParsing, so two
\* parses never overlap)
ParseAndFindReferences ==
    /\ view = "upload"
    /\ markdownFile
    /\ budget.parses > 0
    /\ \E doc \in budget.docs : Commit(parseAndFindReferences(State, doc))

handleStartOver(s) ==
    setImageReferences(
        [s EXCEPT !.view = "upload", !.markdownFile = FALSE,
                  !.markdownContent = FALSE, !.styleImageFile = FALSE,
                  !.maintainStyle = FALSE,
                  !.currentReferenceIndex = NoIndex,
                  !.generationTriggered = {},
                  !.exporting = FALSE, !.exportError = FALSE, !.zipUrl = NULL,
                  !.exportTriggered = FALSE,
                  !.session = @ + 1,
                  !.started = [i \in Indices |-> 0]], <<>>)

\* the "Start Over" button (shown in the generation view)
HandleStartOver ==
    /\ view = "generation"
    /\ budget.parses > 0
    /\ Commit(handleStartOver(State))

(***************************************************************************)
(* The generation pipeline: the continuations of triggerGenerationForIndex *)
(***************************************************************************)
\* one failure of the run's allowance is spent
Spend(s, n) == [s EXCEPT !.budget.fails = @ - n]

\* fileToGenerativePart(styleImageFile) settles (a rejection is caught)
PipelineStyleRead ==
    \E p \in pipelines, ok \in OksWithin(budget.fails) :
       /\ p.pc = "style"
       /\ LET q == [p EXCEPT !.style = IF ok THEN UploadedStyle ELSE NoImage]
              s == Spend([State EXCEPT !.pipelines = @ \ {p}], IF ok THEN 0 ELSE 1)
          IN Commit(PipelineBegin(s, q))

PipelinePrompts_ImagesAnyway ==
    \E p \in pipelines, ok \in OksWithin(budget.fails) :
       /\ p.pc = "prompts"
       /\ LET s == Spend([State EXCEPT !.pipelines = @ \ {p}], IF ok THEN 0 ELSE 1)
              s1 == ReplaceAt(s, p.index,
                               [Ref(s, p.index) EXCEPT
                                   !.isGeneratingPrompts = FALSE,
                                   !.proposedPrompts = ok,
                                   !.isGeneratingImages = TRUE])
          IN Commit([s1 EXCEPT !.pipelines = @ \cup {[p EXCEPT !.pc = "images"]}])

\* generatePrompts(ref) settles: both tags found, or the call or the parse fails
PipelinePrompts ==
    \E p \in pipelines, ok \in OksWithin(budget.fails) :
       /\ p.pc = "prompts"
       /\ LET s == Spend([State EXCEPT !.pipelines = @ \ {p}], IF ok THEN 0 ELSE 1)
          IN IF ok
             THEN LET s1 == ReplaceAt(s, p.index,
                               [Ref(s, p.index) EXCEPT
                                   !.isGeneratingPrompts = FALSE,
                                   !.proposedPrompts = TRUE,
                                   !.isGeneratingImages = TRUE])
                  IN Commit([s1 EXCEPT !.pipelines = @ \cup {[p EXCEPT !.pc = "images"]}])
             ELSE Commit(PipelineFail(s, p.index))

\* createInitialHistory(img): null for no image, else a one-node history
\* (the state after the allocation and the id, NULL for null)
createInitialHistory(s, img) ==
    IF img = NoImage THEN [id |-> NULL, s |-> s]
    ELSE AllocHist(s, NewHistory(img))

\* the final setImageReferences of the to-generate branch
PipelineStoreImages(s, p, image1Raw, image2Raw) ==
    LET image1 == normalizeImage(image1Raw)
        image2 == normalizeImage(image2Raw)
        h0 == createInitialHistory(s, image1)
        h1 == createInitialHistory(h0.s, image2)
        a  == AllocArr(h1.s, [k \in Slots |-> IF k = 0 THEN image1 ELSE image2])
    IN ReplaceAt(a.s, p.index,
          [Ref(a.s, p.index) EXCEPT
              !.isGeneratingImages = FALSE,
              !.generatedImages = a.id,
              !.histories = [k \in Slots |-> IF k = 0 THEN h0.id ELSE h1.id]])

\* await Promise.all([p1, p2]) resolves: both generateImageFromPrompt calls,
\* issued together, have settled (each .catch(e => null))
PipelineImages ==
    \E p \in pipelines :
       /\ p.pc = "images"
       /\ \E out1 \in OutcomesWithin(budget.fails, Img("init", p.sess, p.index, 0, 0)) :
          \E out2 \in OutcomesWithin(budget.fails - Bad(out1),
                                     Img("init", p.sess, p.index, 1, 0)) :
            LET s == Spend([State EXCEPT !.pipelines = @ \ {p}], Bad(out1) + Bad(out2))
            IN Commit(PipelineStoreImages(s, p, CatchNull(out1), CatchNull(out2)))

\* existing image, left slot: generateImageVariation(...).catch(() => null)
PipelineImprove ==
    \E p \in pipelines :
       /\ p.pc = "improve"
       /\ \E out \in OutcomesWithin(budget.fails, Img("improved", p.sess, p.index, 0, 0)) :
            LET q == [p EXCEPT !.pc = "describe",
                               !.improved = normalizeImage(CatchNull(out))]
            IN Install(Spend([State EXCEPT !.pipelines = (@ \ {p}) \cup {q}], Bad(out)))

\* existing image, right slot: the describe call settles (a failure is caught
\* and leaves describeText empty; the template then falls back to ref.alt)
PipelineDescribe ==
    \E p \in pipelines :
       /\ p.pc = "describe"
       /\ Install([State EXCEPT !.pipelines = (@ \ {p}) \cup {[p EXCEPT !.pc = "prompt"]}])

\* the final setImageReferences of the existing branch
PipelineStoreExisting(s, p, right) ==
    LET h0 == createInitialHistory(s, p.improved)
        h1 == createInitialHistory(h0.s, right)
    IN ReplaceAt(h1.s, p.index,
          [Ref(h1.s, p.index) EXCEPT
              !.isGeneratingImproved = FALSE,
              !.isGeneratingVariation = FALSE,
              !.generatedImproved = p.improved,
              !.generatedVariation = right,
              !.histories = [k \in Slots |-> IF k = 0 THEN h0.id ELSE h1.id]])

\* existing image, right slot: the prompt call settles; newPrompt is the text
\* of <prompt_1>, empty when the call failed or the tag is missing
PipelinePromptFromDescription ==
    \E p \in pipelines, hasPrompt \in OksWithin(budget.fails) :
       /\ p.pc = "prompt"
       /\ LET s == Spend([State EXCEPT !.pipelines = @ \ {p}],
                         IF hasPrompt THEN 0 ELSE 1)
          IN IF hasPrompt
             THEN Install([s EXCEPT !.pipelines = @ \cup {[p EXCEPT !.pc = "right"]}])
             ELSE Commit(PipelineStoreExisting(s, p, NoImage))

\* existing image, right slot: generateImageFromPrompt(...).catch(() => null)
PipelineRight ==
    \E p \in pipelines :
       /\ p.pc = "right"
       /\ \E out \in OutcomesWithin(budget.fails, Img("variation", p.sess, p.index, 1, 0)) :
            Commit(PipelineStoreExisting(
                      Spend([State EXCEPT !.pipelines = @ \ {p}], Bad(out)),
                      p, normalizeImage(CatchNull(out))))

\* the slots whose candidate call (generateImageVariation for the left slot
\* of a placeholder with a source image, generateImageFromPrompt otherwise)
\* pipeline p has issued and not yet seen settle
CandidateCallsInFlight(p) ==
    IF p.pc = "images" THEN Slots          \* await Promise.all(imagePromises)
    ELSE IF p.pc = "improve" THEN {0}      \* await generateImageVariation(...)
    ELSE IF p.pc = "right" THEN {1}        \* await generateImageFromPrompt(...)
    ELSE {}

(***************************************************************************)
(* What the generation view shows for the current placeholder              *)
(***************************************************************************)
\* the results section with the navigation and the ImageReferenceItem
SectionVisible(s) ==
    /\ s.view = "generation"
    /\ ~s.allSelectedMemo
    /\ s.currentReferenceIndex # NoIndex
    /\ RefId(s, s.currentReferenceIndex) # NULL

\* the rendering of the slot lags behind the state (a completed retry that
\* did not re-render)
Stale(s, k) == [index |-> s.currentReferenceIndex, slot |-> k] \in s.staleDom

\* slot k of the current placeholder is rendered as an <img> with its EditInput
Displayed(s, k) ==
    /\ SectionVisible(s)
    /\ LET o == RefId(s, s.currentReferenceIndex)
           r == s.objs[o]
       IN IF r.status = "to-generate"
          THEN /\ r.generatedImages # NULL
               /\ GeneratedImage(s, o, k) # NoImage
               /\ r.proposedPrompts
               /\ ~r.loadErrors[k]
               /\ ~Stale(s, k)
          ELSE IF k = 0 THEN ~r.isGeneratingImproved
          ELSE ~r.isGeneratingVariation /\ r.generatedVariation # NoImage

\* slot k of the current placeholder shows "Image failed" with "Try again"
RetryShown(s, k) ==
    /\ SectionVisible(s)
    /\ LET o == RefId(s, s.currentReferenceIndex)
           r == s.objs[o]
       IN /\ r.status = "to-generate"
          /\ r.generatedImages # NULL
          /\ ~Displayed(s, k)
          /\ ~r.isRetrying
          /\ \A j \in Slots : ~Stale(s, j)

(***************************************************************************)
(* Navigation between placeholders and selection                           *)
(***************************************************************************)
\* setCurrentReferenceIndex(Math.min(imageReferences.length - 1, cur + 1))
NextIndex(s) ==
    IF s.currentReferenceIndex + 1 < Len(s.imageReferences) - 1
    THEN s.currentReferenceIndex + 1 ELSE Len(s.imageReferences) - 1

handleNext(s) ==
    IF s.currentReferenceIndex # NoIndex
    THEN [s EXCEPT !.currentReferenceIndex = NextIndex(s)]
    ELSE s

HandleNext ==
    /\ SectionVisible(State)
    /\ currentReferenceIndex # Len(imageReferences) - 1
    /\ Commit(handleNext(State))

\* setCurrentReferenceIndex(Math.max(0, currentReferenceIndex - 1))
handlePrevious(s) ==
    IF s.currentReferenceIndex # NoIndex
    THEN [s EXCEPT !.currentReferenceIndex =
                      IF @ - 1 > 0 THEN @ - 1 ELSE 0]
    ELSE s

HandlePrevious ==
    /\ SectionVisible(State)
    /\ currentReferenceIndex # 0
    /\ Commit(handlePrevious(State))

\* the image handleImageSelect would capture as style reference
StyleCandidate(s, o, imageIndex) ==
    LET ref == s.objs[o]
        hist == HistId(s, o, imageIndex)
    IN IF hist # NULL THEN CurrentImage(s.hists[hist])
       ELSE IF ref.status = "to-generate" THEN GeneratedImage(s, o, imageIndex)
       ELSE IF imageIndex = 0 THEN ref.originalImage
       ELSE ref.generatedVariation

handleImageSelect(s, imageIndex) ==
    LET cur == s.currentReferenceIndex
        o == RefId(s, cur)
        capture == /\ s.maintainStyle /\ cur = 0
                   /\ s.styleReferenceImage = NoImage
                   /\ StyleCandidate(s, o, imageIndex) # NoImage
        s1 == IF capture
              THEN [s EXCEPT !.styleReferenceImage = StyleCandidate(s, o, imageIndex)]
              ELSE s
        \* updatedReferences[currentReferenceIndex].selectedIndex = imageIndex
        s2 == [s1 EXCEPT !.objs[o].selectedIndex = imageIndex]
        s3 == setImageReferences(s2, s2.imageReferences)
    IN \* setTimeout(() => handleNext(), 300)
       [s3 EXCEPT !.timers = @ \cup {NextIndex(s)},
                  !.budget.selects = @ - 1]

\* a click on a displayed image, or ArrowLeft / ArrowRight
HandleImageSelect ==
    /\ budget.selects > 0
    /\ view = "generation"
    /\ currentReferenceIndex # NoIndex
    /\ RefId(State, currentReferenceIndex) # NULL
    /\ \E imageIndex \in Slots : Commit(handleImageSelect(State, imageIndex))

\* the timer of handleImageSelect fires: handleNext as it was when the
\* selection was made; setting the index it already has does not render
TimerFires ==
    \E t \in timers :
       LET s == [State EXCEPT !.timers = @ \ {t}]
       IN IF t = currentReferenceIndex
          THEN Install(s)
          ELSE Commit([s EXCEPT !.currentReferenceIndex = t])

(***************************************************************************)
(* Version histories: edit and navigate                                    *)
(***************************************************************************)
\* the histories handleEditInstruction creates when the reference has none
LazyHistories(s, o) ==
    LET r == s.objs[o]
        base0 == IF r.status = "existing"
                 THEN (IF r.generatedImproved # NoImage THEN r.generatedImproved
                       ELSE r.originalImage)
                 ELSE GeneratedImage(s, o, 0)
        base1 == IF r.status = "existing" THEN r.generatedVariation
                 ELSE GeneratedImage(s, o, 1)
        h0 == createInitialHistory(s, base0)
        h1 == createInitialHistory(h0.s, base1)
    IN [h1.s EXCEPT !.objs[o].histories =
                        [k \in Slots |-> IF k = 0 THEN h0.id ELSE h1.id]]

\* generateEditedImage up to its first call: the retry-wrapped call on the
\* first turn of the branch key, else the chat when the SDK has one, else the
\* retry-wrapped unary call
FirstEditCall(s, hist) ==
    IF hist.currentId \notin hist.seeded THEN "first"
    ELSE IF s.budget.chat THEN "chat"
    ELSE "unary"

\* handleEditInstruction up to the first call of generateEditedImage
handleEditInstruction(s, imageIndex) ==
    LET cur == s.currentReferenceIndex
        o == RefId(s, cur)
        s1 == IF s.objs[o].histories = <<>> THEN LazyHistories(s, o) ELSE s
        h == s1.objs[o].histories[imageIndex]
    IN IF h = NULL THEN s1
       ELSE LET hist == s1.hists[h]
                s2 == [s1 EXCEPT !.hists[h].isEditing = TRUE,
                                 !.hists[h].error = FALSE]
                s3 == setImageReferences(s2, s2.imageReferences)
                e == [updated |-> s.imageReferences, history |-> h,
                      parent |-> hist.currentId,
                      parentImage |-> CurrentImage(hist),
                      style |-> s.styleReferenceImage,
                      sess |-> s.session, index |-> cur, slot |-> imageIndex,
                      pc |-> FirstEditCall(s, hist)]
            IN [s3 EXCEPT !.edits = @ \cup {e},
                          !.budget.edits = @ - 1]

\* Enter in the EditInput of a displayed slot (disabled while isEditing)
HandleEditInstruction ==
    /\ budget.edits > 0
    /\ \E imageIndex \in Slots :
          /\ Displayed(State, imageIndex)
          /\ LET h == HistId(State, RefId(State, currentReferenceIndex), imageIndex)
             IN IF h = NULL THEN TRUE ELSE ~hists[h].isEditing
          /\ Commit(handleEditInstruction(State, imageIndex))

AppendEdit_KeepCurrent(hist, parent, editedImage) ==
    LET newId == NewNodeId(hist.nodes)
        newNode == [imageData |-> editedImage, parentId |-> parent,
                    childrenIds |-> <<>>]
        linked == [hist.nodes EXCEPT ![parent].childrenIds = Append(@, newId)]
    IN [hist EXCEPT !.nodes = Extend(linked, newId, newNode),
                    !.order = Append(@, newId),
                    !.gEdits = @ + 1]

AppendEdit_NodeNotStored(hist, parent, editedImage) ==
    LET newId == NewNodeId(hist.nodes)
    IN [hist EXCEPT !.nodes[parent].childrenIds = Append(@, newId),
                    !.order = Append(@, newId),
                    !.currentId = newId,
                    !.gEdits = @ + 1]

AppendEdit_ChildOfRoot(hist, parent, editedImage) ==
    LET newId == NewNodeId(hist.nodes)
        newNode == [imageData |-> editedImage, parentId |-> hist.rootId,
                    childrenIds |-> <<>>]
        linked == [hist.nodes EXCEPT ![hist.rootId].childrenIds = Append(@, newId)]
    IN [hist EXCEPT !.nodes = Extend(linked, newId, newNode),
                    !.order = Append(@, newId),
                    !.currentId = newId,
                    !.gEdits = @ + 1]

AppendEdit_ChildOfCurrent(hist, parent, editedImage) ==
    LET newId == NewNodeId(hist.nodes)
        newNode == [imageData |-> editedImage, parentId |-> hist.currentId,
                    childrenIds |-> <<>>]
        linked == [hist.nodes EXCEPT ![hist.currentId].childrenIds = Append(@, newId)]
    IN [hist EXCEPT !.nodes = Extend(linked, newId, newNode),
                    !.order = Append(@, newId),
                    !.currentId = newId,
                    !.gEdits = @ + 1]

\* the new node of a successful edit: child of the node that was current at
\* submission, appended to order, made current
AppendEdit(hist, parent, editedImage) ==
    LET newId == NewNodeId(hist.nodes)
        newNode == [imageData |-> editedImage, parentId |-> parent,
                    childrenIds |-> <<>>]
        linked == [hist.nodes EXCEPT ![parent].childrenIds = Append(@, newId)]
    IN [hist EXCEPT !.nodes = Extend(linked, newId, newNode),
                    !.order = Append(@, newId),
                    !.currentId = newId,
                    !.gEdits = @ + 1]

\* generateEditedImage goes on to its next call: the first-turn response holds
\* no image, or chat.sendMessage(...).catch(() => null) gave no image
EditFallsThrough ==
    \E e \in edits :
       /\ e.pc \in {"first", "chat"}
       /\ budget.fails > 0
       /\ LET next == IF e.pc = "first" /\ budget.chat THEN "chat" ELSE "unary"
          IN Install(Spend([State EXCEPT
                               !.edits = (@ \ {e}) \cup {[e EXCEPT !.pc = next]}], 1))

\* existing.seededWithImageId = branchKey, when the first-turn call gave an image
Seed(hist, e, out) ==
    IF e.pc = "first" /\ ~out.threw
    THEN [hist EXCEPT !.seeded = @ \cup {e.parent}] ELSE hist

EditFailed_BackToRoot(hist) ==
    [hist EXCEPT !.error = TRUE, !.currentId = hist.rootId]

\* catch of handleEditInstruction: history.error = e?.message || 'Edit failed'
EditFailed(hist) ==
    [hist EXCEPT !.error = TRUE]

\* generateEditedImage settles (an image from the call in flight, or an error
\* thrown by a retry-wrapped call): try / catch / finally of
\* handleEditInstruction
EditSettles ==
    \E e \in edits :
       \E out \in OutcomesWithin(budget.fails,
                                 Img("edit", e.sess, e.index, e.slot,
                                     Cardinality(DOMAIN hists[e.history].nodes))) :
          /\ e.pc = "chat" => ~out.threw
          /\ LET s == Spend([State EXCEPT !.edits = @ \ {e},
                                         !.hists[e.history] = Seed(@, e, out)],
                            Bad(out))
                 hist == s.hists[e.history]
                 normalized == normalizeImage(out.img)
                 editedImage == IF normalized # NoImage THEN normalized
                                ELSE e.parentImage
                 hist1 == IF out.threw THEN EditFailed(hist)
                          ELSE AppendEdit(hist, e.parent, editedImage)
                 s1 == [s EXCEPT !.hists[e.history] = [hist1 EXCEPT !.isEditing = FALSE]]
             IN \* setImageReferences([...updated])
                Commit(setImageReferences(s1, e.updated))

\* history.order.indexOf(history.currentId), 0-based, -1 when absent
IndexOf(seq, x) ==
    IF \E i \in 1..Len(seq) : seq[i] = x
    THEN (CHOOSE i \in 1..Len(seq) :
             seq[i] = x /\ \A j \in 1..(i - 1) : seq[j] # x) - 1
    ELSE -1

navigate_JumpToEnds(hist, direction) ==
    IF IndexOf(hist.order, hist.currentId) < 0 THEN hist
    ELSE IF direction = "prev"
    THEN [hist EXCEPT !.currentId = hist.order[1], !.gNav = TRUE]
    ELSE [hist EXCEPT !.currentId = hist.order[Len(hist.order)], !.gNav = TRUE]

\* the body of handleNavigateHistory on one history
navigate(hist, direction) ==
    LET idx == IndexOf(hist.order, hist.currentId)
    IN IF idx < 0 THEN hist
       ELSE IF direction = "prev" /\ idx > 0
       THEN [hist EXCEPT !.currentId = hist.order[idx], !.gNav = TRUE]
       ELSE IF direction = "next" /\ idx < Len(hist.order) - 1
       THEN [hist EXCEPT !.currentId = hist.order[idx + 2], !.gNav = TRUE]
       ELSE hist

handleNavigateHistory(s, imageIndex, direction) ==
    LET o == RefId(s, s.currentReferenceIndex)
        h == HistId(s, o, imageIndex)
    IN IF s.currentReferenceIndex = NoIndex THEN s
       ELSE IF h = NULL THEN s
       ELSE IF IndexOf(s.hists[h].order, s.hists[h].currentId) < 0 THEN s
       ELSE setImageReferences([s EXCEPT !.hists[h] = navigate(@, direction),
                                         !.budget.navs = @ - 1],
                               s.imageReferences)

\* the arrows of a displayed slot (each disabled at its end of the order)
HandleNavigateHistory ==
    /\ budget.navs > 0
    /\ \E imageIndex \in Slots, direction \in {"prev", "next"} :
       /\ Displayed(State, imageIndex)
       /\ LET h == HistId(State, RefId(State, currentReferenceIndex), imageIndex)
          IN /\ h # NULL
             /\ LET idx == IndexOf(hists[h].order, hists[h].currentId)
                IN IF direction = "prev" THEN idx > 0
                   ELSE idx >= 0 /\ idx < Len(hists[h].order) - 1
       /\ Commit(handleNavigateHistory(State, imageIndex, direction))

(***************************************************************************)
(* Retry of a failed slot, image load errors                               *)
(***************************************************************************)
\* handleRegenerateImage up to the await of generateImageFromPrompt
handleRegenerateImage(s, imageIndex) ==
    LET cur == s.currentReferenceIndex
        o == RefId(s, cur)
        s1 == setImageReferences([s EXCEPT !.objs[o].isRetrying = TRUE],
                                 s.imageReferences)
    IN IF ~s.objs[o].proposedPrompts
       THEN [s1 EXCEPT !.objs[o].isRetrying = FALSE]
       ELSE [s1 EXCEPT !.regens = @ \cup
                          {[updatedReferences |-> s.imageReferences,
                            index |-> cur, slot |-> imageIndex,
                            sameArr |-> TRUE, sess |-> s.session,
                            style |-> s.styleReferenceImage]},
                       !.budget.regens = @ - 1]

\* the "Try again" button of a failed slot
HandleRegenerateImage ==
    /\ budget.regens > 0
    /\ \E imageIndex \in Slots :
          /\ RetryShown(State, imageIndex)
          /\ Commit(handleRegenerateImage(State, imageIndex))

\* generateImageFromPrompt settles: try / catch / finally
RegenSettles ==
    \E g \in regens :
       \E out \in OutcomesWithin(budget.fails, Img("regen", g.sess, g.index, g.slot, 0)) :
          LET s == Spend([State EXCEPT !.regens = @ \ {g}], Bad(out))
              o == g.updatedReferences[g.index + 1]
              a == s.objs[o].generatedImages
              s1 == IF ~out.threw /\ a # NULL
                    THEN [s EXCEPT !.arrs[a][g.slot] = normalizeImage(out.img)]
                    ELSE s
              s2 == [s1 EXCEPT !.objs[o].isRetrying = FALSE]
          IN IF g.sameArr
             THEN \* setImageReferences with the array the state holds: no render
                  Install([s2 EXCEPT !.staleDom = @ \cup
                                        {[index |-> g.index, slot |-> g.slot]}])
             ELSE Commit(setImageReferences(s2, g.updatedReferences))

\* onImageError of a displayed <img>: the payload does not decode
onImageError(s, imageIndex) ==
    LET o == RefId(s, s.currentReferenceIndex)
    IN setImageReferences(
          [s EXCEPT !.objs[o].loadErrors[imageIndex] = TRUE,
                    !.budget.imgErrors = @ - 1], s.imageReferences)

OnImageError ==
    /\ budget.imgErrors > 0
    /\ \E imageIndex \in Slots :
          /\ Displayed(State, imageIndex)
          /\ Commit(onImageError(State, imageIndex))

(***************************************************************************)
(* Export: the caption calls of handleBuildExports, one after the other    *)
(***************************************************************************)
ExportCaption ==
    /\ exportRun.on
    /\ \E ok \in OksWithin(budget.fails) :
          LET s == Spend(State, IF ok THEN 0 ELSE 1)
              run == s.exportRun
          IN IF ~ok THEN Commit(ExportFail(s))
             ELSE IF run.pos + 1 < Len(run.sorted)
             THEN Commit(ExportVisit(s, [run EXCEPT !.pos = @ + 1]))
             ELSE \* the document is rebuilt, both archives are generated
                  Commit([s EXCEPT !.zipUrl = run.sess, !.exporting = FALSE,
                                   !.exportRun = NoRun])

Next ==
    \/ LoadTemplates
    \/ HandleMarkdownSelect
    \/ SetStyleImageFile
    \/ SetMaintainStyle
    \/ ParseAndFindReferences
    \/ HandleStartOver
    \/ PipelineStyleRead
    \/ PipelinePrompts
    \/ PipelineImages
    \/ PipelineImprove
    \/ PipelineDescribe
    \/ PipelinePromptFromDescription
    \/ PipelineRight
    \/ HandleNext
    \/ HandlePrevious
    \/ HandleImageSelect
    \/ TimerFires
    \/ HandleEditInstruction
    \/ EditFallsThrough
    \/ EditSettles
    \/ HandleNavigateHistory
    \/ HandleRegenerateImage
    \/ RegenSettles
    \/ OnImageError
    \/ ExportCaption

Spec == Init /\ [][Next]_vars

\* no call, file read or timer is pending
Idle ==
    /\ pipelines = {} /\ edits = {} /\ regens = {}
    /\ exportRun = NoRun /\ timers = {}

(***************************************************************************)
(*                   generateContentWithRetry (genai.ts)                   *)
(*                                                                         *)
(* Strings are sequences of one-character strings, so that                 *)
(* String.prototype.includes is computed rather than assumed.              *)
(***************************************************************************)
Includes(s, t) ==
    \E k \in 0..(Len(s) - Len(t)) : SubSeq(s, k + 1, k + Len(t)) = t

Str429 == <<"4", "2", "9">>
StrResourceExhausted ==
    <<"R","E","S","O","U","R","C","E","_","E","X","H","A","U","S","T","E","D">>

(***************************************************************************)
(* What the underlying call can throw.  isError: the value is an instance  *)
(* of Error; message is its .message, json is JSON.stringify of the value. *)
(***************************************************************************)
ThrownErrors ==
    { [id |-> "e429", isError |-> TRUE,
       message |-> <<"g","o","t"," ","4","2","9"," ","T","o","o">>,
       json |-> <<"{","}">>],
      [id |-> "eQuota", isError |-> TRUE,
       message |-> StrResourceExhausted, json |-> <<"{","}">>],
      [id |-> "eObj429", isError |-> FALSE,
       message |-> <<>>,
       json |-> <<"{","c","o","d","e",":","4","2","9","}">>],
      [id |-> "e500", isError |-> TRUE,
       message |-> <<"5","0","0"," ","4","2"," ","9">>, json |-> <<"{","}">>],
      [id |-> "eStatusOnly", isError |-> TRUE,
       message |-> <<"T","o","o"," ","m","a","n","y">>,
       json |-> <<"{","s","t","a","t","u","s",":","4","2","9","}">>],
      [id |-> "eObjOther", isError |-> FALSE,
       message |-> <<>>,
       json |-> <<"{","c","o","d","e",":","5","0","3","}">>] }

Responses == { [id |-> "respA"], [id |-> "respB"] }

\* const errorMessage = error instanceof Error ? error.message : JSON.stringify(error)
errorMessage(e) == IF e.isError THEN e.message ELSE e.json

IsRateLimit_NeverRetry(e) == FALSE

IsRateLimit_AlwaysRetry(e) == TRUE

\* errorMessage.includes('429') || errorMessage.includes('RESOURCE_EXHAUSTED')
IsRateLimit(e) ==
    Includes(errorMessage(e), Str429) \/ Includes(errorMessage(e), StrResourceExhausted)

\* default parameters of generateContentWithRetry
retries == 5
initialDelay == 1000
JitterCeiling == 500

\* Math.random() * 500 lies in [0, 500); three sample points stand for it
JitterSamples == {0, 250, JitterCeiling - 1}

Pow2_Linear(n) == n + 1

\* Math.pow(2, i)
RECURSIVE Pow2(_)
Pow2(n) == IF n = 0 THEN 1 ELSE 2 * Pow2(n - 1)

LoopContinues_OneMore(i) == i <= retries

\* the loop test: i < retries
LoopContinues(i) == i < retries

\* the loop's i++ and test; when the loop ends: throw lastError || new Error(...)
RetryLoopStep(e) ==
    /\ rI' = rI + 1
    /\ IF LoopContinues(rI + 1)
       THEN rPc' = "call" /\ UNCHANGED rResult
       ELSE rPc' = "thrown" /\ rResult' = e

RetryInit ==
    /\ rPc = "call"
    /\ rI = 0
    /\ rLastError = NoValue
    /\ rResult = NoValue
    /\ rLog = <<>>
    /\ rDelays = <<>>
    /\ AppMounted
    /\ budget = Quiet
    /\ document = NoDocument

\* try { const response = await ai.models.generateContent(request); return response; }
RetryCallReturns ==
    /\ rPc = "call"
    /\ \E resp \in Responses :
          /\ rResult' = resp
          /\ rLog' = Append(rLog, [ok |-> TRUE, val |-> resp])
    /\ rPc' = "returned"
    /\ UNCHANGED <<rI, rLastError, rDelays>>
    /\ UNCHANGED appVars

\* catch (error) { lastError = error; ... }
RetryCallThrows ==
    /\ rPc = "call"
    /\ \E e \in ThrownErrors :
          /\ rLog' = Append(rLog, [ok |-> FALSE, val |-> e])
          /\ rLastError' = e
          /\ IF IsRateLimit(e)
             THEN IF rI < retries - 1
                  THEN \* await new Promise(resolve => setTimeout(resolve, delay))
                       /\ \E jitter \in JitterSamples :
                             rDelays' = Append(rDelays, initialDelay * Pow2(rI) + jitter)
                       /\ rPc' = "wait"
                       /\ UNCHANGED <<rI, rResult>>
                  ELSE \* the last iteration does not wait
                       /\ RetryLoopStep(e)
                       /\ UNCHANGED rDelays
             ELSE \* throw error
                  /\ rPc' = "thrown"
                  /\ rResult' = e
                  /\ UNCHANGED <<rI, rDelays>>
    /\ UNCHANGED appVars

\* the backoff timer fires; the for loop goes on
RetryWaitElapsed ==
    /\ rPc = "wait"
    /\ RetryLoopStep(rLastError)
    /\ UNCHANGED <<rLastError, rLog, rDelays>>
    /\ UNCHANGED appVars

RetryNext ==
    \/ RetryCallReturns
    \/ RetryCallThrows
    \/ RetryWaitElapsed

SpecRetry == RetryInit /\ [][RetryNext]_vars

(***************************************************************************)
(*        The extractor and the export of one document (App.tsx)           *)
(*                                                                         *)
(* A text is a sequence of one-character strings, offsets are 0-based as   *)
(* in the code, and the two regular expressions are computed on it.        *)
(***************************************************************************)
NoMatch == [found |-> FALSE]

\* text[i], "" beyond the end
At(text, i) == IF i >= 0 /\ i < Len(text) THEN text[i + 1] ELSE ""

\* text.slice(from, to): empty when to <= from
Slice(text, from, to) ==
    LET a == IF from < 0 THEN 0 ELSE IF from > Len(text) THEN Len(text) ELSE from
        b == IF to < 0 THEN 0 ELSE IF to > Len(text) THEN Len(text) ELSE to
    IN IF b <= a THEN <<>> ELSE SubSeq(text, a + 1, b)

MinOf(S) == CHOOSE x \in S : \A y \in S : x <= y

\* the first offset >= from whose character is in chars, -1 when there is none
FirstOf(text, from, chars) ==
    LET S == {p \in from..(Len(text) - 1) : At(text, p) \in chars}
    IN IF S = {} THEN -1 ELSE MinOf(S)

\* the first offset >= from whose character is not in chars (Len(text) at the end)
FirstNotOf(text, from, chars) ==
    LET S == {p \in from..(Len(text) - 1) : At(text, p) \notin chars}
    IN IF S = {} THEN Len(text) ELSE MinOf(S)

EndsWith_WholePath(s, t) == s = t

\* s.startsWith(t), s.endsWith(t)
StartsWith(s, t) == Len(t) <= Len(s) /\ SubSeq(s, 1, Len(t)) = t
EndsWith(s, t) == Len(t) <= Len(s) /\ SubSeq(s, Len(s) - Len(t) + 1, Len(s)) = t

Whitespace == {" ", "\n"}      \* \s
Quotes == {"\"", "'"}
LineEnds == {"\n"}             \* what . does not match

\* /!\[([^\]]*)\]\((.*?)\)/ tried at offset i
MarkdownMatchAt(text, i) ==
    IF At(text, i) # "!" \/ At(text, i + 1) # "[" THEN NoMatch
    ELSE LET j == FirstOf(text, i + 2, {"]"})          \* end of [^\]]*
         IN IF j < 0 \/ At(text, j + 1) # "(" THEN NoMatch
            ELSE LET k == FirstOf(text, j + 2, {")"} \cup LineEnds)   \* (.*?)\)
                 IN IF k < 0 \/ At(text, k) # ")" THEN NoMatch
                    ELSE [found |-> TRUE, index |-> i, length |-> k + 1 - i,
                          rawAlt |-> Slice(text, i + 2, j),
                          rawPath |-> Slice(text, j + 2, k)]

\* /<img([^>]+)>/gi tried at offset i
ImgMatchAt(text, i) ==
    IF Slice(text, i, i + 4) # <<"<", "i", "m", "g">> THEN NoMatch
    ELSE LET k == FirstOf(text, i + 4, {">"})
         IN IF k < i + 5 THEN NoMatch
            ELSE [found |-> TRUE, index |-> i, length |-> k + 1 - i,
                  attrsString |-> Slice(text, i + 4, k)]

\* while ((match = regex.exec(text)) !== null): the successive matches of a
\* global regular expression, each search starting where the last match ended
RECURSIVE MarkdownMatches(_, _)
MarkdownMatches(text, lastIndex) ==
    LET S == {i \in lastIndex..(Len(text) - 1) : MarkdownMatchAt(text, i).found}
    IN IF S = {} THEN <<>>
       ELSE LET m == MarkdownMatchAt(text, MinOf(S))
            IN <<m>> \o MarkdownMatches(text, m.index + m.length)

RECURSIVE ImgMatches(_, _)
ImgMatches(text, lastIndex) ==
    LET S == {i \in lastIndex..(Len(text) - 1) : ImgMatchAt(text, i).found}
    IN IF S = {} THEN <<>>
       ELSE LET m == ImgMatchAt(text, MinOf(S))
            IN <<m>> \o ImgMatches(text, m.index + m.length)

\* /name\s*=\s*(?:"([^"]*)"|'([^']*)'|([^\s>]{min,}))/ tried at offset p of s:
\* value is the captured group, quoted tells which alternative matched
AttrMatchAt(s, name, min, p) ==
    IF Slice(s, p, p + Len(name)) # name THEN NoMatch
    ELSE LET e == FirstNotOf(s, p + Len(name), Whitespace)
         IN IF At(s, e) # "=" THEN NoMatch
            ELSE LET v == FirstNotOf(s, e + 1, Whitespace)
                     q == IF At(s, v) \in Quotes
                          THEN FirstOf(s, v + 1, {At(s, v)}) ELSE -1
                     u == FirstNotOf(s, v, {c \in Range(s) : c \notin Whitespace \cup {">"}})
                 IN IF q >= 0
                    THEN [found |-> TRUE, index |-> p, length |-> q + 1 - p,
                          quoted |-> TRUE, value |-> Slice(s, v + 1, q)]
                    ELSE IF u - v >= min
                    THEN [found |-> TRUE, index |-> p, length |-> u - p,
                          quoted |-> FALSE, value |-> Slice(s, v, u)]
                    ELSE NoMatch

\* s.match(regex) of the attribute expression: the leftmost match
AttrMatch(s, name, min) ==
    LET S == {p \in 0..(Len(s) - 1) : AttrMatchAt(s, name, min, p).found}
    IN IF S = {} THEN NoMatch ELSE AttrMatchAt(s, name, min, MinOf(S))

StrSrc == <<"s", "r", "c">>
StrAlt == <<"a", "l", "t">>

\* rawPath.split(/\s+(?=["'])/, 2)[0]: the part before a quoted title
BeforeTitle(rawPath) ==
    LET S == {p \in 0..(Len(rawPath) - 1) :
                 /\ At(rawPath, p) \in Whitespace
                 /\ At(rawPath, FirstNotOf(rawPath, p, Whitespace)) \in Quotes}
    IN IF S = {} THEN rawPath ELSE Slice(rawPath, 0, MinOf(S))

\* s.trim()
Trim(s) ==
    LET a == FirstNotOf(s, 0, Whitespace)
        S == {p \in 0..(Len(s) - 1) : At(s, p) \notin Whitespace}
    IN IF S = {} THEN <<>> ELSE Slice(s, a, (CHOOSE x \in S : \A y \in S : y <= x) + 1)

\* if (path.startsWith('<') && path.endsWith('>')) path = path.slice(1, -1)
StripAngles(path) ==
    IF StartsWith(path, <<"<">>) /\ EndsWith(path, <<">">>)
    THEN Slice(path, 1, Len(path) - 1) ELSE path

\* s.replace(/\\(.)/g, '$1')
RECURSIVE Unescape(_)
Unescape(s) ==
    IF s = <<>> THEN <<>>
    ELSE IF s[1] = "\\" /\ Len(s) >= 2 /\ s[2] \notin LineEnds
    THEN <<s[2]>> \o Unescape(Slice(s, 2, Len(s)))
    ELSE <<s[1]>> \o Unescape(Slice(s, 1, Len(s)))

\* the path of an inline-link image as the extractor stores it
MarkdownPath(rawPath) == Unescape(StripAngles(Trim(BeforeTitle(rawPath))))

\* (contentBeforeMatch.match(/\n/g) || []).length + 1
LineNumberAt(text, matchIndex) ==
    Cardinality({p \in 0..(matchIndex - 1) : At(text, p) = "\n"}) + 1

ContextRadius == 500

\* currentMarkdownContent.substring(contextStart, contextEnd)
ContextOf(text, matchIndex, length) ==
    Slice(text,
          IF matchIndex - ContextRadius > 0 THEN matchIndex - ContextRadius ELSE 0,
          IF matchIndex + length + ContextRadius < Len(text)
          THEN matchIndex + length + ContextRadius ELSE Len(text))

\* an archive: whether the upload is a .zip, and Object.keys(zip.files) without
\* the directories, in the order of the archive
NoZip == [isZip |-> FALSE, paths |-> <<>>]

\* const normalizedPath = path.startsWith('./') ? path.substring(2) : path
NormalizedPath(path) ==
    IF StartsWith(path, <<".", "/">>) THEN Slice(path, 2, Len(path)) ELSE path

\* zipFilePaths.find(p => p.endsWith(normalizedPath)): its position, 0 for
\* undefined
FindInZip(zip, path) ==
    LET S == {n \in 1..Len(zip.paths) : EndsWith(zip.paths[n], NormalizedPath(path))}
    IN IF ~zip.isZip \/ S = {} THEN 0 ELSE MinOf(S)

\* the record pushed for one match
Reference(text, zip, m, syntax, alt, path) ==
    [lineNumber |-> LineNumberAt(text, m.index),
     alt |-> alt, path |-> path,
     context |-> ContextOf(text, m.index, m.length),
     status |-> IF FindInZip(zip, path) > 0 THEN "existing" ELSE "to-generate",
     originalImage |-> IF FindInZip(zip, path) > 0
                       THEN zip.paths[FindInZip(zip, path)] ELSE <<>>,
     startIndex |-> m.index, matchLength |-> m.length, syntax |-> syntax]

\* the first while loop: one record for every match
MarkdownReferences(text, zip) ==
    LET ms == MarkdownMatches(text, 0)
    IN [n \in 1..Len(ms) |->
           Reference(text, zip, ms[n], "markdown",
                     Unescape(ms[n].rawAlt), MarkdownPath(ms[n].rawPath))]

\* const path = srcMatch ? srcMatch[1] || srcMatch[2] || srcMatch[3] : null;
\* if (path)
HasPath(m) ==
    /\ AttrMatch(m.attrsString, StrSrc, 1).found
    /\ AttrMatch(m.attrsString, StrSrc, 1).value # <<>>

\* the second while loop: one record for every match that has a path
RECURSIVE ImgReferencesOf(_, _, _)
ImgReferencesOf(text, zip, ms) ==
    IF ms = <<>> THEN <<>>
    ELSE LET m == Head(ms)
             altMatch == AttrMatch(m.attrsString, StrAlt, 0)
             rest == ImgReferencesOf(text, zip, Tail(ms))
         IN IF HasPath(m)
            THEN <<Reference(text, zip, m, "html",
                             IF altMatch.found THEN altMatch.value ELSE <<>>,
                             IF AttrMatch(m.attrsString, StrSrc, 1).found
                             THEN AttrMatch(m.attrsString, StrSrc, 1).value
                             ELSE <<>>)>> \o rest
            ELSE rest

ImgReferences(text, zip) == ImgReferencesOf(text, zip, ImgMatches(text, 0))

\* Array.prototype.sort with (a, b) => key(a) - key(b): stable
RECURSIVE InsertSorted(_, _, _)
InsertSorted(sorted, r, key) ==
    IF sorted = <<>> THEN <<r>>
    ELSE IF r[key] < Head(sorted)[key] THEN <<r>> \o sorted
    ELSE <<Head(sorted)>> \o InsertSorted(Tail(sorted), r, key)

RECURSIVE SortBy(_, _)
SortBy(refs, key) ==
    IF refs = <<>> THEN <<>>
    ELSE InsertSorted(SortBy(SubSeq(refs, 1, Len(refs) - 1), key),
                      refs[Len(refs)], key)

\* references.sort((a, b) => a.lineNumber - b.lineNumber)
ExtractReferences(text, zip) ==
    SortBy(MarkdownReferences(text, zip) \o ImgReferences(text, zip), "lineNumber")

(***************************************************************************)
(* handleBuildExports on the extracted references                          *)
(***************************************************************************)
\* const sorted = [...imageReferences].sort((a, b) => (a.startIndex || 0) - (b.startIndex || 0))
SortedForExport(refs) == SortBy(refs, "startIndex")

\* what createFilenameAndDescription gets from the caption call: the slug
\* after sanitizeSlug, and the text of <description> (empty when missing)
CaptionResponses ==
    { [slug |-> "a", desc |-> <<"D">>],
      [slug |-> "b", desc |-> <<"D">>],
      [slug |-> "image", desc |-> <<>>] }

\* return { slug, alt: alt || ref.alt || 'Illustrative image' }
CaptionAlt(ref, resp) ==
    IF resp.desc # <<>> THEN resp.desc
    ELSE IF ref.alt # <<>> THEN ref.alt
    ELSE <<"Illustrative image">>

\* const filename = `${ref.lineNumber}-${slug}.${ext}` (every payload is a png)
Filename(ref, resp) == <<ToString(ref.lineNumber), "-", resp.slug, ".", "png">>

\* fileInfos.push({ ref, filename, alt, relPath: `images/${filename}` })
FileInfo(ref, resp) ==
    [filename |-> Filename(ref, resp), alt |-> CaptionAlt(ref, resp),
     relPath |-> <<"images/">> \o Filename(ref, resp), slug |-> resp.slug]

\* s.replace(regex, r) for the match m of the regex in s (s when there is none)
ReplaceMatch(s, m, r) ==
    IF ~m.found THEN s
    ELSE Slice(s, 0, m.index) \o r \o Slice(s, m.index + m.length, Len(s))

\* /alt\s*=\s*/i.test(s)
HasAltAttr(s) ==
    \E p \in 0..(Len(s) - 1) :
       /\ Slice(s, p, p + 3) = StrAlt
       /\ At(s, FirstNotOf(s, p + 3, Whitespace)) = "="

\* s.replace(/<img/i, `<img alt="${alt}"`)
InsertAlt(s, alt) ==
    LET S == {p \in 0..(Len(s) - 1) : Slice(s, p, p + 4) = <<"<", "i", "m", "g">>}
    IN IF S = {} THEN s
       ELSE Slice(s, 0, MinOf(S) + 4) \o <<" ", "a", "l", "t", "=", "\"">> \o alt
               \o <<"\"">> \o Slice(s, MinOf(S) + 4, Len(s))

\* the markup written in place of a placeholder
Replacement(text, ref, info) ==
    IF ref.syntax = "markdown"
    THEN <<"!", "[">> \o info.alt \o <<"]", "(">> \o info.relPath \o <<")">>
    ELSE LET original == Slice(text, ref.startIndex, ref.startIndex + ref.matchLength)
             replaced == ReplaceMatch(original, AttrMatch(original, StrSrc, 1),
                            <<"s", "r", "c", "=", "\"">> \o info.relPath \o <<"\"">>)
         IN IF HasAltAttr(replaced)
            THEN ReplaceMatch(replaced, AttrMatch(replaced, StrAlt, 1),
                    <<"a", "l", "t", "=", "\"">> \o info.alt \o <<"\"">>)
            ELSE InsertAlt(replaced, info.alt)

\* the rebuild loop from reference number n of sorted on, with its cursor
RECURSIVE RebuildFrom(_, _, _, _, _)
RebuildFrom(text, sorted, infos, n, cursor) ==
    IF n > Len(sorted) THEN Slice(text, cursor, Len(text))
    ELSE Slice(text, cursor, sorted[n].startIndex)
            \o Replacement(text, sorted[n], infos[n])
            \o RebuildFrom(text, sorted, infos, n + 1,
                           sorted[n].startIndex + sorted[n].matchLength)

Rebuild(text, sorted, infos) == RebuildFrom(text, sorted, infos, 1, 0)

(***************************************************************************)
(* The secondary bundle (zipAll).  An image is known by the placeholder    *)
(* (its position in sorted), the slot and the version it belongs to;       *)
(* version 0 of slot 0 is the original image of the archive.               *)
(***************************************************************************)
Version(n, slot, v) == [ref |-> n, slot |-> slot, v |-> v]

\* slugByRef.get(ref.lineNumber): slugByRef.set(ref.lineNumber, slug) of the
\* last reference of that line in the caption loop
SlugByRef(sorted, infos, lineNumber) ==
    LET S == {n \in DOMAIN infos : sorted[n].lineNumber = lineNumber}
    IN infos[CHOOSE n \in S : \A m \in S : m <= n].slug

\* hN.order.forEach((id, idx) => collect(hN.nodes[id].imageData, `histN-v${idx + 1}`))
HistoryEntries(n, slot, versions) ==
    [v \in 1..versions |->
        [suffix |-> <<"hist", ToString(slot), "-v", ToString(v)>>,
         image |-> Version(n, slot, v)]]

\* what the loop body collects for the reference at position n of sorted,
\* whose slot 0 history has v0 versions and whose slot 1 history has one
Collected(sorted, n, v0) ==
    (IF sorted[n].status = "to-generate"
     THEN << [suffix |-> <<"option1">>, image |-> Version(n, 0, 1)],
             [suffix |-> <<"option2">>, image |-> Version(n, 1, 1)] >>
     ELSE << [suffix |-> <<"original">>, image |-> Version(n, 0, 0)],
             [suffix |-> <<"variation">>, image |-> Version(n, 1, 1)] >>)
       \o HistoryEntries(n, 0, v0) \o HistoryEntries(n, 1, 1)

\* const fname = `${ref.lineNumber}-${baseSlug}-${suffix}.${ext}`
AllName(sorted, infos, n, suffix) ==
    <<ToString(sorted[n].lineNumber), "-",
      SlugByRef(sorted, infos, sorted[n].lineNumber), "-">> \o suffix \o <<".", "png">>

\* toAdd: if (!addedSet.has(name)) { allFolder.file(name, ...); addedSet.add(name) }
ToAdd(entries, name, image) ==
    IF \E k \in DOMAIN entries : entries[k].name = name THEN entries
    ELSE Append(entries, [name |-> name, image |-> image])

RECURSIVE AddCollected(_, _, _, _, _)
AddCollected(entries, sorted, infos, n, items) ==
    IF items = <<>> THEN entries
    ELSE AddCollected(ToAdd(entries, AllName(sorted, infos, n, Head(items).suffix),
                            Head(items).image),
                      sorted, infos, n, Tail(items))

\* for (const ref of sorted) { ... collect(...) ... } from position n on
RECURSIVE ZipAllFrom(_, _, _, _, _)
ZipAllFrom(entries, sorted, infos, n, v0) ==
    IF n > Len(sorted) THEN entries
    ELSE ZipAllFrom(AddCollected(entries, sorted, infos, n, Collected(sorted, n, v0)),
                    sorted, infos, n + 1, v0)

ZipAll(sorted, infos, v0) == ZipAllFrom(<<>>, sorted, infos, 1, v0)

(***************************************************************************)
(* Documents.  A document is put together from pieces of markup and text;  *)
(* each piece tells which placeholders it holds (offset in the piece,      *)
(* length, path as written, syntax), so that what the extractor finds can  *)
(* be compared with what was put in.                                       *)
(***************************************************************************)
MaxPieces == 3      \* pieces in a document
MaxVersions == 2    \* versions in the history of slot 0 at export

Holds(offset, length, path, syntax) ==
    [offset |-> offset, length |-> length, path |-> path, syntax |-> syntax]

Piece(chars, holds) == [chars |-> chars, holds |-> holds]

PathP == <<"p">>                \* the archive has i/p
PathQ == <<"q">>                \* no file of the archive ends with q

Pieces ==
    { \* ![a](p)
      Piece(<<"!", "[", "a", "]", "(", "p", ")">>, <<Holds(0, 7, PathP, "markdown")>>),
      \* ![]()
      Piece(<<"!", "[", "]", "(", ")">>, <<Holds(0, 5, <<>>, "markdown")>>),
      \* ![a](./p)
      Piece(<<"!", "[", "a", "]", "(", ".", "/", "p", ")">>,
            <<Holds(0, 9, <<".", "/", "p">>, "markdown")>>),
      \* ![a](q)
      Piece(<<"!", "[", "a", "]", "(", "q", ")">>, <<Holds(0, 7, PathQ, "markdown")>>),
      \* ![a](<p> "t")
      Piece(<<"!", "[", "a", "]", "(", "<", "p", ">", " ", "\"", "t", "\"", ")">>,
            <<Holds(0, 13, PathP, "markdown")>>),
      \* <img src=p>
      Piece(<<"<", "i", "m", "g", " ", "s", "r", "c", "=", "p", ">">>,
            <<Holds(0, 11, PathP, "html")>>),
      \* <img alt="a" src="q">
      Piece(<<"<", "i", "m", "g", " ", "a", "l", "t", "=", "\"", "a", "\"", " ",
              "s", "r", "c", "=", "\"", "q", "\"", ">">>,
            <<Holds(0, 21, PathQ, "html")>>),
      \* <img alt=a>
      Piece(<<"<", "i", "m", "g", " ", "a", "l", "t", "=", "a", ">">>, <<>>),
      \* <img src="">
      Piece(<<"<", "i", "m", "g", " ", "s", "r", "c", "=", "\"", "\"", ">">>, <<>>),
      \* ![<img src=p>](q)
      Piece(<<"!", "[", "<", "i", "m", "g", " ", "s", "r", "c", "=", "p", ">",
              "]", "(", "q", ")">>,
            <<Holds(0, 17, PathQ, "markdown"), Holds(2, 11, PathP, "html")>>),
      \* ![a](q\)): the path is q), its closing parenthesis escaped
      Piece(<<"!", "[", "a", "]", "(", "q", "\\", ")", ")">>,
            <<Holds(0, 9, <<"q", ")">>, "markdown")>>),
      Piece(<<"\n">>, <<>>),
      Piece(<<"t">>, <<>>) }

PieceSeqs == UNION {[1..n -> Pieces] : n \in 0..MaxPieces}

RECURSIVE TextOf(_)
TextOf(pieces) ==
    IF pieces = <<>> THEN <<>> ELSE Head(pieces).chars \o TextOf(Tail(pieces))

\* the archives: none (a .md upload), or a .zip with the document and i/p
ZipWithP ==
    [isZip |-> TRUE,
     paths |-> << <<"d", ".", "m", "d">>, <<"i", "/", "p">> >>]

Zips == {NoZip, ZipWithP}

NewDocument(pieces, zip) ==
    [pc |-> "upload", pieces |-> pieces, text |-> TextOf(pieces), zip |-> zip,
     refs |-> <<>>, sorted |-> <<>>, inFlight |-> {}, calls |-> <<>>,
     fileInfos |-> <<>>, rebuilt |-> <<>>, versions |-> 0, zipAll |-> <<>>]

DocInit ==
    /\ rPc = "off" /\ rI = 0 /\ rLastError = NoValue /\ rResult = NoValue
    /\ rLog = <<>> /\ rDelays = <<>>
    /\ AppMounted
    /\ budget = Quiet
    /\ \E pieces \in PieceSeqs, zip \in Zips : document = NewDocument(pieces, zip)

\* parseAndFindReferences on the uploaded file
DocParse ==
    /\ document.pc = "upload"
    /\ document' = [document EXCEPT
                       !.pc = "parsed",
                       !.refs = ExtractReferences(document.text, document.zip)]
    /\ UNCHANGED <<retryVars, reactVars>>

CaptionsToIssue_AllAtOnce(d) ==
    {n \in 1..Len(d.sorted) : \A c \in 1..Len(d.calls) : d.calls[c] # n}

\* for (const ref of sorted) { ... await createFilenameAndDescription(...) }:
\* the loop reaches the next reference when the call it awaits has returned
CaptionsToIssue(d) ==
    IF d.inFlight = {} /\ Len(d.fileInfos) < Len(d.sorted)
    THEN {Len(d.fileInfos) + 1} ELSE {}

\* the caption calls for the references at the positions in S are issued,
\* in the order of sorted
RECURSIVE IssueCaptions(_, _)
IssueCaptions(d, S) ==
    IF S = {} THEN d
    ELSE IssueCaptions([d EXCEPT !.inFlight = @ \cup {MinOf(S)},
                                 !.calls = Append(@, MinOf(S))],
                       S \ {MinOf(S)})

\* the loop goes on after a caption call returned: the next call, or the
\* rebuild when every reference has its file
\* (v0: the versions the slot 0 histories have when zipAll is filled)
ExportGoesOn(d, v0) ==
    IF CaptionsToIssue(d) # {} THEN IssueCaptions(d, CaptionsToIssue(d))
    ELSE IF d.inFlight # {} THEN d
    ELSE [d EXCEPT !.pc = "rebuilt",
                   !.rebuilt = Rebuild(d.text, d.sorted, d.fileInfos),
                   !.versions = v0,
                   !.zipAll = ZipAll(d.sorted, d.fileInfos, v0)]

\* handleBuildExports, once every placeholder has its selected image
DocExportStarts ==
    /\ document.pc = "parsed"
    /\ document.refs # <<>>
    /\ document' = ExportGoesOn([document EXCEPT
                                    !.pc = "caption",
                                    !.sorted = SortedForExport(document.refs)], 1)
    /\ UNCHANGED <<retryVars, reactVars>>

\* a caption call returns
DocCaptionReturns ==
    /\ document.pc = "caption"
    /\ \E n \in document.inFlight, resp \in CaptionResponses, v0 \in 1..MaxVersions :
          document' = ExportGoesOn([document EXCEPT
                                       !.inFlight = @ \ {n},
                                       !.fileInfos = Append(@, FileInfo(document.sorted[n], resp))],
                                   v0)
    /\ UNCHANGED <<retryVars, reactVars>>

\* a caption call throws: catch (e) { setExportError(...) }
DocCaptionThrows ==
    /\ document.pc = "caption"
    /\ document.inFlight # {}
    /\ document' = [document EXCEPT !.pc = "failed", !.inFlight = {}]
    /\ UNCHANGED <<retryVars, reactVars>>

DocNext ==
    \/ DocParse
    \/ DocExportStarts
    \/ DocCaptionReturns
    \/ DocCaptionThrows

SpecDoc == DocInit /\ [][DocNext]_vars

(***************************************************************************)
(*                 Properties of generateContentWithRetry                  *)
(***************************************************************************)
\* the thrown values whose inspected text carries a rate-limit signature
RetryableIds == {"e429", "eQuota", "eObj429"}

RetryableFailure(entry) == ~entry.ok /\ entry.val.id \in RetryableIds
FatalFailure(entry) == ~entry.ok /\ entry.val.id \notin RetryableIds

\* every call logged before position j failed with a rate-limit error
RetryableBefore(j) == \A i \in 1..(j - 1) : RetryableFailure(rLog[i])

C5_AtMostFiveAttempts ==
    /\ Len(rLog) <= 5
    /\ (Len(rLog) = 5 /\ RetryableBefore(6)) =>
          /\ rPc = "thrown"
          /\ rResult = rLog[5].val
          /\ Len(rDelays) = 4

C5_Witness ==
    /\ Len(rLog) = 5
    /\ RetryableBefore(6)
    /\ rLog[5].val # rLog[4].val
    /\ rPc = "thrown"

(***************************************************************************)
(*                         Properties of the App                           *)
(***************************************************************************)
\* C1: within one session (from a parse until the next parse or Start
\* Over) the generation pipeline is started at most once for each
\* placeholder, however often the placeholder becomes current again and
\* however often the dispatch effect re-runs.
C1_PipelineStartedOnce == \A i \in Indices : started[i] <= 1

\* both placeholders were dispatched, and the first is current again
C1_Witness ==
    /\ Len(imageReferences) = 2
    /\ started[0] = 1 /\ started[1] = 1
    /\ currentReferenceIndex = 0
    /\ pipelines = {}
    /\ \A i \in 1..2 : objs[imageReferences[i]].generatedImages # NULL

\* the history of slot k of reference object o, NULL when it has none
SlotHistory(o, k) ==
    IF k \in DOMAIN objs[o].histories THEN objs[o].histories[k] ELSE NULL

\* the image slot k of reference object o holds: the current version of its
\* history, else the stored candidate
SlotImage(o, k) ==
    IF SlotHistory(o, k) # NULL
    THEN hists[SlotHistory(o, k)].nodes[hists[SlotHistory(o, k)].currentId].imageData
    ELSE IF objs[o].status = "to-generate"
    THEN (IF objs[o].generatedImages = NULL THEN NoImage
          ELSE arrs[objs[o].generatedImages][k])
    ELSE IF k = 0 THEN objs[o].generatedImproved
    ELSE objs[o].generatedVariation

\* every placeholder has a chosen slot and the chosen slot holds an image
EveryPlaceholderResolved ==
    \A i \in 1..Len(imageReferences) :
       /\ objs[imageReferences[i]].selectedIndex \in Slots
       /\ SlotImage(imageReferences[i], objs[imageReferences[i]].selectedIndex) # NoImage

Histories == DOMAIN hists

\* history h after n clicks on its "previous version" arrow
RECURSIVE PrevTimes(_, _)
PrevTimes(h, n) == IF n = 0 THEN h ELSE PrevTimes(navigate(h, "prev"), n - 1)

\* C6: after a slot's history is initialized and k edits then succeed one
\* after the other with no navigation in between, linearOrder has exactly
\* k + 1 entries, currentId is the id of the node appended last, and k 'prev'
\* navigations bring currentId back to rootId.
C6_SequentialEdits ==
    \A x \in Histories :
       ~hists[x].gNav =>
          /\ Len(hists[x].order) = hists[x].gEdits + 1
          /\ hists[x].currentId = hists[x].order[Len(hists[x].order)]
          /\ hists[x].order[1] = hists[x].rootId
          /\ PrevTimes(hists[x], hists[x].gEdits).currentId = hists[x].rootId
          /\ (hists[x].gEdits > 0 =>
                PrevTimes(hists[x], hists[x].gEdits - 1).currentId # hists[x].rootId)

\* three edits succeeded on a history nobody navigated
C6_Witness ==
    \E x \in Histories :
       /\ ~hists[x].gNav
       /\ hists[x].gEdits = 3
       /\ ~hists[x].isEditing

\* C7: in every reachable state every slot history has its currentId among
\* its nodes, a root whose parentId is null, and for every other node a
\* parentId that is the id of one of its nodes.
C7_HistoryWellFormed ==
    \A x \in Histories :
       /\ hists[x].currentId \in DOMAIN hists[x].nodes
       /\ hists[x].rootId \in DOMAIN hists[x].nodes
       /\ hists[x].nodes[hists[x].rootId].parentId = NULL
       /\ \A n \in DOMAIN hists[x].nodes \ {hists[x].rootId} :
             hists[x].nodes[n].parentId \in DOMAIN hists[x].nodes

\* a history with a branch: two edits made from the root, the cursor moved
\* back to the first of them
C7_Witness ==
    \E x \in Histories :
       /\ Cardinality(DOMAIN hists[x].nodes) = 3
       /\ Len(hists[x].nodes[hists[x].rootId].childrenIds) = 2
       /\ hists[x].currentId = hists[x].order[2]

\* position of the current version in linearOrder (1-based)
Cursor(hist) == CHOOSE i \in 1..Len(hist.order) : hist.order[i] = hist.currentId

\* what a click on an arrow has to make of history hist
Moved(hist, direction) ==
    IF direction = "prev"
    THEN (IF Cursor(hist) = 1 THEN hist.currentId
          ELSE hist.order[Cursor(hist) - 1])
    ELSE (IF Cursor(hist) = Len(hist.order) THEN hist.currentId
          ELSE hist.order[Cursor(hist) + 1])

\* C9: navigate('prev' | 'next') moves currentId to the adjacent entry of
\* linearOrder in that direction, does nothing at the first entry for 'prev'
\* and at the last entry for 'next', and never changes nodes, linearOrder or
\* rootId; checked for the function on every reachable history and for the
\* handler on the slots of the current placeholder.
C9_NavigateAdjacent ==
    /\ \A x \in Histories, direction \in {"prev", "next"} :
          /\ navigate(hists[x], direction).currentId = Moved(hists[x], direction)
          /\ navigate(hists[x], direction).nodes = hists[x].nodes
          /\ navigate(hists[x], direction).order = hists[x].order
          /\ navigate(hists[x], direction).rootId = hists[x].rootId
    /\ \A k \in Slots, direction \in {"prev", "next"} :
          (/\ RefId(State, currentReferenceIndex) # NULL
           /\ SlotHistory(RefId(State, currentReferenceIndex), k) # NULL) =>
             \A x \in Histories :
                /\ handleNavigateHistory(State, k, direction).hists[x].currentId =
                      IF x = SlotHistory(RefId(State, currentReferenceIndex), k)
                      THEN Moved(hists[x], direction) ELSE hists[x].currentId
                /\ handleNavigateHistory(State, k, direction).hists[x].nodes = hists[x].nodes
                /\ handleNavigateHistory(State, k, direction).hists[x].order = hists[x].order
                /\ handleNavigateHistory(State, k, direction).hists[x].rootId = hists[x].rootId

\* the user went two versions back in a history of three and one forward
C9_Witness ==
    \E x \in Histories :
       /\ hists[x].gNav
       /\ Len(hists[x].order) = 3
       /\ hists[x].currentId = hists[x].order[2]
       /\ budget.navs = 0

\* C10 as stated: linearOrder is one path of the version tree - each entry
\* after the first is a child of the entry immediately before it.
C10_OrderIsOnePath ==
    \A x \in Histories :
       \A i \in 2..Len(hists[x].order) :
          hists[x].nodes[hists[x].order[i]].parentId = hists[x].order[i - 1]

\* C10 amended: each entry of linearOrder after the first is a child of an
\* entry before it (the version that was current when the edit was
\* submitted), and of the entry immediately before it as long as nobody has
\* navigated the history.
C10_OrderFollowsParents ==
    \A x \in Histories :
       \A i \in 2..Len(hists[x].order) :
          /\ \E j \in 1..(i - 1) :
                hists[x].nodes[hists[x].order[i]].parentId = hists[x].order[j]
          /\ ~hists[x].gNav =>
                hists[x].nodes[hists[x].order[i]].parentId = hists[x].order[i - 1]

\* an edit made after stepping back: the third entry is a child of the first
C10_Witness ==
    \E x \in Histories :
       /\ Len(hists[x].order) = 3
       /\ hists[x].nodes[hists[x].order[3]].parentId = hists[x].order[1]

\* the nodes of slot k of placeholder number i (1-based), <<>> without history
SlotNodes(i, k) ==
    IF i > Len(imageReferences) THEN <<>>
    ELSE IF SlotHistory(imageReferences[i], k) = NULL THEN <<>>
    ELSE hists[SlotHistory(imageReferences[i], k)].nodes

\* C8 as stated: histories are append-only - within a session, a version
\* node that exists in a slot's history is still there after every step,
\* with the same image and the same parent, whatever the step is.
C8_AppendOnly ==
    [][session' = session =>
          \A i \in 1..Len(imageReferences), k \in Slots :
             \A n \in DOMAIN SlotNodes(i, k) :
                /\ n \in DOMAIN SlotNodes(i, k)'
                /\ SlotNodes(i, k)'[n].imageData = SlotNodes(i, k)[n].imageData
                /\ SlotNodes(i, k)'[n].parentId = SlotNodes(i, k)[n].parentId]_vars

\* C11: at most one edit call is in flight per (placeholder, slot) at any
\* time: two edits in flight in the same session never are on the same slot
\* of the same placeholder.
C11_OneEditPerSlot ==
    \A e1 \in edits, e2 \in edits :
       (e1.sess = e2.sess /\ e1.index = e2.index /\ e1.slot = e2.slot)
          => e1 = e2

\* the initial candidates of placeholder j of the current document are still
\* being generated
CandidatesPending(j) ==
    \E q \in pipelines : q.sess = session /\ q.index = j

\* C12: generation for a later placeholder is never started while an
\* earlier placeholder's initial candidates are still pending: in every step
\* that dispatches placeholder i > 0, the placeholder before it in document
\* order is ready or errored.
C12_DispatchAfterPrevious ==
    [][\A i \in Indices \ {0} :
          (session' = session /\ started'[i] > started[i])
             => ~CandidatesPending(i - 1)']_vars

\* reference object o holds no candidate yet
NothingPublished(o) ==
    /\ objs[o].generatedImages = NULL
    /\ objs[o].generatedImproved = NoImage
    /\ objs[o].generatedVariation = NoImage

\* C13: for every placeholder, with or without a source image, the two
\* candidate generations are in flight at the same time, and the
\* placeholder's candidates are published only after both have settled:
\* a pipeline never has one candidate call in flight without the other, and
\* while a pipeline of the current document runs its placeholder holds no
\* candidate.
C13_CandidatesConcurrent ==
    \A p \in pipelines :
       /\ CandidateCallsInFlight(p) \in {{}, Slots}
       /\ (p.sess = session /\ p.index < Len(imageReferences))
            => NothingPublished(imageReferences[p.index + 1])

\* the candidate stored for slot k of reference object o
SlotCandidate(o, k) ==
    IF objs[o].status = "to-generate"
    THEN (IF objs[o].generatedImages = NULL THEN NoImage
          ELSE arrs[objs[o].generatedImages][k])
    ELSE IF k = 0 THEN objs[o].generatedImproved
    ELSE objs[o].generatedVariation

\* the pipeline of reference object o has run to its end, o is no longer
\* generating and has no placeholder-level error (ImagesReady)
ImagesReady(o) ==
    /\ objs[o].sess = session
    /\ objs[o].idx \in generationTriggered
    /\ ~CandidatesPending(objs[o].idx)
    /\ ~objs[o].generationError
    /\ ~objs[o].isGeneratingPrompts /\ ~objs[o].isGeneratingImages
    /\ ~objs[o].isGeneratingImproved /\ ~objs[o].isGeneratingVariation
    /\ objs[o].histories # <<>>
    /\ objs[o].status = "to-generate" => objs[o].generatedImages # NULL

\* slot k of reference object o holds the candidate generated for slot k of
\* placeholder index in session sess, with a one-node history on that image
SlotFilled(o, k, sess, index) ==
    /\ SlotCandidate(o, k) # NoImage
    /\ SlotCandidate(o, k).sess = sess
    /\ SlotCandidate(o, k).idx = index
    /\ SlotCandidate(o, k).slot = k
    /\ SlotCandidate(o, k) = normalizeImage(SlotCandidate(o, k))
    /\ SlotHistory(o, k) # NULL
    /\ hists[SlotHistory(o, k)].order = <<hists[SlotHistory(o, k)].rootId>>
    /\ hists[SlotHistory(o, k)].currentId = hists[SlotHistory(o, k)].rootId
    /\ SlotImage(o, k) = SlotCandidate(o, k)

SlotEmpty(o, k) == SlotCandidate(o, k) = NoImage /\ SlotHistory(o, k) = NULL

\* placeholder index of the current document is ImagesReady with one
\* candidate and one hole
ReadyWithHole(index) ==
    /\ index < Len(imageReferences)
    /\ ImagesReady(imageReferences[index + 1])
    /\ \E k \in Slots :
          /\ SlotFilled(imageReferences[index + 1], k, session, index)
          /\ SlotEmpty(imageReferences[index + 1], 1 - k)

\* pipeline p of the current document is at its last candidate call
AtLastCall(p) == p.sess = session /\ p.pc \in {"images", "prompt", "right"}

\* the candidate calls of p that have already failed
FailedSoFar(p) == IF p.pc \in {"prompt", "right"} /\ p.improved = NoImage THEN 1 ELSE 0

\* C14: if one of a placeholder's two candidate calls fails (transport
\* error, no image returned, or validation failure) while the other succeeds,
\* the placeholder still reaches ImagesReady: the successful slot holds its
\* image and history, the failed slot is empty, and no placeholder-level
\* error is set.  Checked on every step in which a pipeline stores its
\* candidates after exactly one of its two candidate calls failed.
C14_HoleStillReady ==
    [][\A p \in pipelines :
          (/\ AtLastCall(p)
           /\ session' = session
           /\ \A q \in pipelines' : ~(q.sess = p.sess /\ q.index = p.index)
           /\ FailedSoFar(p) + (budget.fails - budget'.fails) = 1)
             => ReadyWithHole(p.index)']_vars

\* the current placeholder is shown, is ImagesReady, and its slot k is empty
CurrentHasHole(k) ==
    /\ SectionVisible(State)
    /\ ImagesReady(RefId(State, currentReferenceIndex))
    /\ SlotEmpty(RefId(State, currentReferenceIndex), k)
    /\ ~objs[RefId(State, currentReferenceIndex)].isRetrying

\* the candidate stored for slot k of placeholder index of the document
CandidateAt(index, k) == SlotCandidate(imageReferences[index + 1], k)

\* C15: for every placeholder that reached ImagesReady with an empty slot,
\* whether it has a source image or not, a retry of that slot can be invoked,
\* and when its service call returns a valid image that slot becomes filled
\* with the new image.
C15_RetryFillsHole ==
    /\ [](\A k \in Slots : CurrentHasHole(k) => RetryShown(State, k))
    /\ [][\A g \in regens :
             (/\ g.sess = session /\ session' = session
              /\ g \notin regens'
              /\ budget'.fails = budget.fails
              /\ g.index < Len(imageReferences'))
                => CandidateAt(g.index, g.slot)' =
                      Img("regen", g.sess, g.index, g.slot, 0)]_vars

\* C16: whenever a slot of a placeholder holds an image, including after a
\* successful per-slot retry, that slot owns a VersionHistory whose current
\* node carries that image (the root of the history is the stored candidate,
\* and the image the slot shows is the history's current version), so the
\* slot can be edited and navigated.
C16_ImageHasHistory ==
    \A i \in 1..Len(imageReferences), k \in Slots :
       SlotCandidate(imageReferences[i], k) # NoImage =>
          /\ SlotHistory(imageReferences[i], k) # NULL
          /\ hists[SlotHistory(imageReferences[i], k)]
                .nodes[hists[SlotHistory(imageReferences[i], k)].rootId].imageData
                = SlotCandidate(imageReferences[i], k)

\* placeholder index of the document is in the Error state
ErrorAt(index) ==
    /\ index < Len(imageReferences)
    /\ objs[imageReferences[index + 1]].generationError

\* C17: a placeholder enters the Error state only because a service call of
\* its own pipeline failed irrecoverably (retries exhausted or a
\* non-retryable error) or its response could not be parsed: in every step
\* that puts a placeholder into Error, a call of that placeholder's own
\* pipeline has just failed.
C17_ErrorOnlyOwnFailure ==
    [][\A i \in Indices :
          (ErrorAt(i)' /\ (session' # session \/ ~ErrorAt(i)))
             => \E p \in pipelines :
                   /\ p.sess = session' /\ p.index = i
                   /\ p \notin pipelines'
                   /\ budget'.fails < budget.fails]_vars

\* all the state of placeholder index of the document: its reference object,
\* its stored candidates and its version histories
PlaceholderState(index) ==
    IF index >= Len(imageReferences) THEN <<>>
    ELSE << objs[imageReferences[index + 1]],
            IF objs[imageReferences[index + 1]].generatedImages = NULL THEN <<>>
            ELSE <<arrs[objs[imageReferences[index + 1]].generatedImages]>>,
            [k \in Slots |->
               IF SlotHistory(imageReferences[index + 1], k) = NULL THEN <<>>
               ELSE <<hists[SlotHistory(imageReferences[index + 1], k)]>>] >>

\* pipeline p ends in this step with a failed or unparsable prompt call
PromptCallFails(p) ==
    /\ p.pc = "prompts"
    /\ p \notin pipelines'
    /\ budget'.fails < budget.fails

\* C18: when one placeholder ends in Error, no other placeholder's state is
\* changed by that failure, and every other placeholder can still be
\* dispatched, generated and selected afterwards: the step in which a
\* pipeline fails (at its prompt call, or at its dispatch) changes no
\* placeholder but the pipeline's own, and with a placeholder in Error the
\* placeholder the user is at is still dispatched.
C18_ErrorIsIsolated ==
    /\ [][\A p \in pipelines :
             (session' = session /\ PromptCallFails(p))
                => \A j \in Indices :
                      \/ (p.sess = session /\ j = p.index)
                      \/ PlaceholderState(j)' = PlaceholderState(j)]_vars
    /\ [][\A i \in Indices :
             (session' = session /\ started'[i] > started[i] /\ ErrorAt(i)')
                => \A j \in Indices \ {i} :
                      PlaceholderState(j)' = PlaceholderState(j)]_vars
    /\ []((view = "generation" /\ RefId(State, currentReferenceIndex) # NULL
             /\ \E i \in Indices : ErrorAt(i))
            => currentReferenceIndex \in generationTriggered)

\* no placeholder of the document has a selected image yet
NothingSelectedYet ==
    \A i \in 1..Len(imageReferences) :
       \/ objs[imageReferences[i]].selectedIndex = NoSel
       \/ SlotImage(imageReferences[i], objs[imageReferences[i]].selectedIndex) = NoImage

\* the user selects a slot in this step
SelectionMade == budget'.selects < budget.selects

\* C19: if maintain-style is enabled and no style image was uploaded, the
\* first image the user selects, at whichever placeholder that selection
\* happens, becomes the style reference and is attached to every generation
\* started afterwards; generations started before that first selection use
\* no style reference.
C19_FirstSelectionSetsStyle ==
    /\ [][\A k \in Slots :
             (/\ SelectionMade
              /\ maintainStyle /\ ~styleImageFile
              /\ NothingSelectedYet
              /\ RefId(State, currentReferenceIndex) # NULL
              /\ objs'[RefId(State, currentReferenceIndex)].selectedIndex = k
              /\ SlotImage(RefId(State, currentReferenceIndex), k) # NoImage)
                => styleReferenceImage' =
                      SlotImage(RefId(State, currentReferenceIndex), k)]_vars
    /\ [][\A p \in pipelines' \ pipelines :
             (/\ p.sess = session' /\ maintainStyle' /\ ~styleImageFile'
              /\ (session' # session \/ started'[p.index] > started[p.index]))
                => p.style = IF NothingSelectedYet' THEN NoImage
                             ELSE styleReferenceImage']_vars

\* the style reference a generation started now would use: the captured
\* image, else the uploaded file, else none
StyleInEffect ==
    IF styleReferenceImage # NoImage THEN styleReferenceImage
    ELSE IF styleImageFile THEN UploadedStyle
    ELSE NoImage

\* C20: within a session, once a style reference is in effect for generation
\* (an uploaded style image, or the image captured from the first chosen
\* candidate), no later event replaces it with a different image, and every
\* generation dispatched later is given that reference.
C20_StyleFrozen ==
    /\ [][(session' = session /\ StyleInEffect # NoImage)
             => StyleInEffect' = StyleInEffect]_vars
    /\ [][\A p \in pipelines' \ pipelines :
             (/\ session' = session /\ p.sess = session
              /\ started'[p.index] > started[p.index]
              /\ StyleInEffect # NoImage)
                => IF p.pc = "style" THEN StyleInEffect = UploadedStyle
                   ELSE p.style = StyleInEffect]_vars

(***************************************************************************)
(*        Properties of the pipeline's calls and of the extractor          *)
(***************************************************************************)
\* pipeline q is at its prompt synthesis call, which settles in this step
PromptsSettle(q) == q \in pipelines /\ q.pc = "prompts" /\ q \notin pipelines'

\* a pipeline of the same invocation (session and placeholder) as q, after the step
SameInvocation(q, p) == p.sess = q.sess /\ p.index = q.index

\* C21: for a placeholder without a source image no image-synthesis call is
\* issued until prompt synthesis has returned both <prompt_1> and <prompt_2>:
\* a pipeline comes to its two image calls only in the step in which its
\* prompt call returned both prompts, which are stored then.  If a tag is
\* missing (or the call failed) the placeholder goes to Error in that step,
\* its pipeline is gone without an image call, and nothing starts prompt
\* synthesis for it again: a pipeline exists only from the one dispatch of
\* its placeholder in the session on.
C21_ImagesAfterPrompts ==
    /\ [][\A p \in pipelines' :
             (p.pc = "images" /\ p \notin pipelines) =>
                /\ PromptsSettle([p EXCEPT !.pc = "prompts"])
                /\ budget'.fails = budget.fails
                /\ (p.sess = session' /\ view' # "crashed") =>
                      Ref(State, p.index)'.proposedPrompts]_vars
    /\ [][\A q \in pipelines :
             (PromptsSettle(q) /\ budget'.fails < budget.fails) =>
                /\ \A p \in pipelines' : ~SameInvocation(q, p)
                /\ (q.sess = session' /\ view' # "crashed") => ErrorAt(q.index)']_vars
    /\ [][\A p \in pipelines' :
             (\A q \in pipelines : ~SameInvocation(q, p)) =>
                /\ p.sess = session'
                /\ (session' # session \/ started[p.index] = 0)
                /\ started'[p.index] = 1]_vars

\* the prompt call of the only placeholder failed: it is in Error, without
\* prompts, images or pipeline
C21_Witness ==
    /\ Len(imageReferences) = 1
    /\ templates /\ markdownContent
    /\ budget.fails < MaxFails
    /\ objs[imageReferences[1]].status = "to-generate"
    /\ ErrorAt(0)
    /\ ~objs[imageReferences[1]].proposedPrompts
    /\ objs[imageReferences[1]].generatedImages = NULL
    /\ started[0] = 1
    /\ pipelines = {}

\* every image that is stored as a candidate or as a version passed the check
StoredImagesWellFormed ==
    /\ \A a \in DOMAIN arrs : \A k \in Slots :
          arrs[a][k] = normalizeImage(arrs[a][k])
    /\ \A o \in DOMAIN objs :
          /\ objs[o].generatedImproved = normalizeImage(objs[o].generatedImproved)
          /\ objs[o].generatedVariation = normalizeImage(objs[o].generatedVariation)
    /\ \A h \in DOMAIN hists : \A n \in DOMAIN hists[h].nodes :
          hists[h].nodes[n].imageData # NoImage
             /\ hists[h].nodes[n].imageData
                   = normalizeImage(hists[h].nodes[n].imageData)

\* the version a step appends to history h, NULL when it appends none
Appended(h) ==
    IF h \in DOMAIN hists /\ h \in DOMAIN hists'
          /\ Len(hists'[h].order) > Len(hists[h].order)
    THEN hists'[h].order[Len(hists'[h].order)] ELSE NULL

\* C22 (as stated): a payload that is not a well-formed image data URL of at
\* least 200 characters is not accepted, and the operation fails for that
\* candidate (initial candidate, slot retry or edit): no malformed image is ever
\* stored, and an edit appends a version only for an image the service
\* returned for it, never a copy of the version it started from.  The code
\* answers a rejected edit payload by appending the parent's image as a new
\* version.
C22_RejectedPayloadFails ==
    /\ []StoredImagesWellFormed
    /\ [][\A h \in DOMAIN hists :
            Appended(h) # NULL =>
               LET node == hists'[h].nodes[Appended(h)]
               IN /\ node.imageData.kind = "edit"
                  /\ node.imageData # hists'[h].nodes[node.parentId].imageData]_vars

(***************************************************************************)
(* The calls to the generative service that are in flight, by call site.  *)
(***************************************************************************)

\* the call a pipeline, a slot retry or an edit is waiting for
CallsInFlight ==
    {p.pc : p \in {q \in pipelines : q.pc # "style"}}
       \cup {"regen" : r \in regens}
       \cup {IF e.pc = "first" THEN "edit first turn"
             ELSE IF e.pc = "chat" THEN "edit chat turn"
             ELSE "edit unary" : e \in edits}

\* how each call site reaches the service: generatePrompts, the describe and
\* reimagine calls, generateImageFromPrompt, generateImageVariation and the
\* first-turn and unary calls of generateEditedImage go through
\* generateContentWithRetry; the chat turn is chat.sendMessage(...)
Caller(site) ==
    IF site = "edit chat turn" THEN "chat.sendMessage"
    ELSE "generateContentWithRetry"

\* C23 (as stated): every call to the generative service issued by prompt
\* synthesis, image synthesis and image editing is made through
\* generateContentWithRetry, never directly.  The code sends the chat turn of an
\* edit with chat.sendMessage.
C23_EveryCallWrapped ==
    \A site \in CallsInFlight : Caller(site) = "generateContentWithRetry"

C25_CaptionsOneAtATime ==
    LET d == document
    IN d.pc \in {"caption", "rebuilt", "failed"} =>
          /\ Cardinality(d.inFlight) <= 1
          /\ \A c \in 1..Len(d.calls) : d.calls[c] = c
          /\ \A c \in 1..(Len(d.calls) - 1) :
                d.sorted[d.calls[c]].startIndex < d.sorted[d.calls[c + 1]].startIndex
          /\ \A n \in d.inFlight :
                Len(d.fileInfos) = n - 1 /\ Len(d.calls) = n
          /\ d.inFlight = {} /\ d.pc # "failed" => Len(d.fileInfos) = Len(d.calls)

\* the second call is in flight after the first returned, in a document whose
\* extraction order differs from its source order
C25_Witness ==
    /\ document.pc = "caption"
    /\ Len(document.sorted) = 2
    /\ document.refs # document.sorted
    /\ document.inFlight = {2}
    /\ document.calls = <<1, 2>>
    /\ Len(document.fileInfos) = 1

(***************************************************************************)
(* What a document is made of: the placeholders its pieces hold, with      *)
(* their offsets in the text.                                              *)
(***************************************************************************)
RECURSIVE PlaceholdersFrom(_, _)
PlaceholdersFrom(pieces, offset) ==
    IF pieces = <<>> THEN {}
    ELSE {[startIndex |-> offset + Head(pieces).holds[k].offset,
           matchLength |-> Head(pieces).holds[k].length,
           syntax |-> Head(pieces).holds[k].syntax,
           path |-> Head(pieces).holds[k].path] : k \in DOMAIN Head(pieces).holds}
         \cup PlaceholdersFrom(Tail(pieces), offset + Len(Head(pieces).chars))

Placeholders(d) == PlaceholdersFrom(d.pieces, 0)

\* the span and syntax of a record or of a placeholder
Span(r) == [startIndex |-> r.startIndex, matchLength |-> r.matchLength,
            syntax |-> r.syntax]

\* C26 (as stated): for any document the extractor returns exactly one record
\* per valid placeholder (inline-link images, and <img> tags with a non-empty
\* src), sorted by non-decreasing line number, the line number being 1 + the
\* newlines before the match, and slicing the text at a record's span yields
\* that placeholder's markup.  The code ends an inline-link image at the first
\* closing parenthesis, escaped or not.
C26_OneRecordPerPlaceholder ==
    LET d == document
    IN d.pc # "upload" =>
          /\ Len(d.refs) = Cardinality(Placeholders(d))
          /\ {Span(d.refs[n]) : n \in DOMAIN d.refs} = {Span(h) : h \in Placeholders(d)}
          /\ \A n \in 1..(Len(d.refs) - 1) :
                d.refs[n].lineNumber <= d.refs[n + 1].lineNumber
          /\ \A n \in DOMAIN d.refs :
                d.refs[n].lineNumber
                   = 1 + Cardinality({p \in 1..d.refs[n].startIndex : d.text[p] = "\n"})

\* C27 (as stated): the extracted placeholder list is ordered by ascending
\* source position (start offset), also when placeholders of the two syntaxes
\* lie on the same line.  The code sorts the inline-link records followed by
\* the <img> records by line number only.
C27_OrderedBySourcePosition ==
    document.pc # "upload" =>
       \A n \in 1..(Len(document.refs) - 1) :
          document.refs[n].startIndex < document.refs[n + 1].startIndex

\* offset p of the text lies in the span of some extracted placeholder
InSomeSpan(d, p) ==
    \E n \in DOMAIN d.sorted :
       d.sorted[n].startIndex <= p
          /\ p < d.sorted[n].startIndex + d.sorted[n].matchLength

\* the text outside the spans between the offsets a and b
RECURSIVE OutsideText(_, _, _)
OutsideText(d, a, b) ==
    IF a >= b THEN <<>>
    ELSE (IF InSomeSpan(d, a) THEN <<>> ELSE <<At(d.text, a)>>)
            \o OutsideText(d, a + 1, b)

\* the text outside the spans, with the new markup of each placeholder where
\* its span starts
RECURSIVE OutsideWithReplacements(_, _, _)
OutsideWithReplacements(d, n, from) ==
    IF n > Len(d.sorted) THEN OutsideText(d, from, Len(d.text))
    ELSE OutsideText(d, from, d.sorted[n].startIndex)
            \o Replacement(d.text, d.sorted[n], d.fileInfos[n])
            \o OutsideWithReplacements(d, n + 1, d.sorted[n].startIndex)

\* C28 (as stated): rebuilding the document replaces only the placeholder
\* spans: the rebuilt document is the text outside the spans, byte for byte,
\* exactly once and in the original order, with the new markup of each
\* placeholder in the place of its span.  When one span lies inside another
\* the code emits part of the outer span again.
C28_RebuildReplacesOnlySpans ==
    document.pc = "rebuilt" =>
       document.rebuilt = OutsideWithReplacements(document, 1, 0)

\* some file path of the archive ends with the path, a leading ./ apart
SomeAssetEndsWith(zip, path) ==
    \E n \in DOMAIN zip.paths :
       LET file == zip.paths[n]
           name == IF Len(path) >= 2 /\ path[1] = "." /\ path[2] = "/"
                   THEN SubSeq(path, 3, Len(path)) ELSE path
       IN Len(name) <= Len(file)
             /\ \A k \in 1..Len(name) : file[Len(file) - Len(name) + k] = name[k]

\* the path of a placeholder names a file of the archive: it is not empty and
\* some file path ends with it
NamesFile(zip, path) ==
    zip.isZip /\ path # <<>> /\ SomeAssetEndsWith(zip, path)

\* C29 (as stated): a placeholder whose path names no file of the asset index,
\* a broken path or an empty path such as ![](), is extracted as having no
\* source image (to generate from text), exactly as in a document supplied
\* without an asset index.  With an archive the code gives the empty path the
\* first file of the archive as its source image.
C29_NoFileNoSourceImage ==
    document.pc # "upload" =>
       \A n \in DOMAIN document.refs :
          ~NamesFile(document.zip, document.refs[n].path) =>
             /\ document.refs[n].status = "to-generate"
             /\ document.refs[n].originalImage = <<>>

C31_DistinctFilenames ==
    \A n, m \in DOMAIN document.fileInfos :
       n # m => document.fileInfos[n].filename # document.fileInfos[m].filename

\* C32 (as stated): the secondary bundle contains an entry for every version
\* in the history of both slots of every placeholder; no generated version of
\* any placeholder is left out.  The entry names are built from the line
\* number, so the versions of a second placeholder on the same line find
\* their names taken and are skipped.
C32_EveryVersionInBundle ==
    document.pc = "rebuilt" =>
       \A n \in DOMAIN document.sorted :
          /\ \A v \in 1..document.versions :
                \E k \in DOMAIN document.zipAll :
                   document.zipAll[k].image = Version(n, 0, v)
          /\ \E k \in DOMAIN document.zipAll :
                document.zipAll[k].image = Version(n, 1, 1)

(***************************************************************************)
(*              Claims about selection, sessions and edits.                *)
(***************************************************************************)

\* C35 (as stated): in every reachable state a placeholder's chosen slot index
\* refers to a slot that holds an image: no selection is recorded for an empty
\* slot or for a placeholder whose candidates are pending or errored, by click
\* or by arrow key.  The arrow keys select whatever the slot holds.
C35_SelectionHasImage ==
    \A i \in 1..Len(imageReferences) :
       objs[imageReferences[i]].selectedIndex \in Slots
          => SlotImage(imageReferences[i], objs[imageReferences[i]].selectedIndex) # NoImage

\* an edit or a slot retry of the current session that was started on a
\* placeholder other than j completes in this step
SettlesElsewhere(j) ==
    \/ \E e \in edits : e \notin edits' /\ e.sess = session /\ e.index # j
    \/ \E g \in regens : g \notin regens' /\ g.sess = session /\ g.index # j

\* C33 (as stated): once a placeholder's candidates (images and histories)
\* have been stored, they are never removed or reverted by the completion of an
\* edit or a slot retry that was started on a different placeholder.  The
\* completion writes back the array it captured at submission, with the other
\* placeholder as it was then.
C33_OtherPlaceholderKept ==
    [][\A j \in Indices :
          (/\ session' = session
           /\ j < Len(imageReferences)
           /\ ~NothingPublished(imageReferences[j + 1])
           /\ SettlesElsewhere(j))
             => /\ j < Len(imageReferences')
                /\ \A k \in Slots :
                      /\ CandidateAt(j, k)' = CandidateAt(j, k)
                      /\ \A n \in DOMAIN SlotNodes(j + 1, k) :
                            /\ n \in DOMAIN SlotNodes(j + 1, k)'
                            /\ SlotNodes(j + 1, k)'[n] = SlotNodes(j + 1, k)[n]]_vars

\* the images held by placeholder number i (1-based) of the list: its
\* candidates and the versions of its histories
ImagesHeld(i) ==
    ({SlotCandidate(imageReferences[i], k) : k \in Slots}
        \cup UNION {{SlotNodes(i, k)[n].imageData : n \in DOMAIN SlotNodes(i, k)} :
                      k \in Slots}) \ {NoImage}

\* C34 (as stated): a result of a generation call that was started before
\* Start Over is never written into a placeholder of the document parsed after
\* Start Over: the placeholders of the list are those of the current session,
\* and every image they hold was generated in that session.  A pipeline of the
\* previous document writes its results by index into whatever list is current.
C34_ResultsOfOwnSession ==
    \A i \in 1..Len(imageReferences) :
       objs[imageReferences[i]].sess = session
          => \A img \in ImagesHeld(i) : img.sess = session

\* the edit e in flight completes in this step (generateEditedImage returned
\* an image or threw; it did not go on to its next call)
EditCompletes(e) ==
    /\ e \in edits
    /\ \A pc \in {"first", "chat", "unary"} : [e EXCEPT !.pc = pc] \notin edits'
    /\ e.history \in DOMAIN hists /\ e.history \in DOMAIN hists'

\* C36: when an edit succeeds, the new node's parentId is the node that was
\* current when the edit was submitted, the new node is appended last in the
\* order and becomes current, even if the user navigated that slot's history
\* while the edit was in flight.
C36_EditAppendsToSubmittedVersion ==
    [][\A e \in edits :
          (EditCompletes(e) /\ ~hists'[e.history].error) =>
             LET old == hists[e.history]
                 new == hists'[e.history]
                 id == new.currentId
             IN /\ id \notin DOMAIN old.nodes
                /\ DOMAIN new.nodes = DOMAIN old.nodes \cup {id}
                /\ new.nodes[id].parentId = e.parent
                /\ new.order = Append(old.order, id)
                /\ new.nodes[e.parent].childrenIds
                      = Append(old.nodes[e.parent].childrenIds, id)]_vars

\* two edits succeeded on versions 1 and 2 in turn, and the only navigation
\* made left version 2 while the second edit was in flight
C36_Witness ==
    /\ budget.navs = MaxNavs - 1
    /\ \E x \in Histories :
          /\ Len(hists[x].order) = 3
          /\ hists[x].gNav
          /\ hists[x].currentId = hists[x].order[3]
          /\ hists[x].nodes[hists[x].order[3]].parentId = hists[x].order[2]
          /\ hists[x].nodes[hists[x].order[2]].parentId = hists[x].order[1]

\* C37: if an edit call fails, the step that handles the failure leaves the
\* slot's history with exactly the nodes, order and currentId it had; only
\* the error is set, and isEditing is cleared so that a new edit can be
\* submitted.
C37_FailedEditKeepsHistory ==
    [][\A e \in edits :
          (EditCompletes(e) /\ hists'[e.history].error) =>
             LET old == hists[e.history]
                 new == hists'[e.history]
             IN /\ new.nodes = old.nodes
                /\ new.order = old.order
                /\ new.currentId = old.currentId
                /\ new.rootId = old.rootId
                /\ ~new.isEditing]_vars

\* an edit of the second version failed: two versions, the second still
\* current, the error shown and the input enabled again
C37_Witness ==
    \E x \in Histories :
       /\ hists[x].error /\ ~hists[x].isEditing
       /\ Len(hists[x].order) = 2
       /\ hists[x].currentId = hists[x].order[2]
       /\ \A e \in edits : e.history # x

\* C38: Start Over ends the session's style reference: a generation of the
\* session that follows is given a style image only if one was uploaded in
\* that session or captured from a candidate of that session; otherwise it
\* is given none.
C38_StyleEndsWithSession ==
    \A p \in pipelines :
       (p.sess = session /\ p.style # NoImage)
          => \/ p.style = UploadedStyle /\ styleImageFile
             \/ p.style.sess = session

\* C40: whenever the current placeholder index is not null it is a valid
\* index into the placeholder list (0 <= index < length), after any sequence
\* of Previous, Next, selection with its delayed auto-advance, and Start Over.
C40_CurrentIndexValid ==
    currentReferenceIndex # NoIndex
       => /\ 0 <= currentReferenceIndex
          /\ currentReferenceIndex < Len(imageReferences)

\* placeholder index became current in this session: the effect dispatched it
BecameCurrent(index) ==
    /\ index < Len(imageReferences)
    /\ index \in generationTriggered

\* reference object o is shown as being generated
Generating(o) ==
    \/ objs[o].isGeneratingPrompts \/ objs[o].isGeneratingImages
    \/ objs[o].isGeneratingImproved \/ objs[o].isGeneratingVariation

\* C39: assuming every service call eventually returns or fails, every
\* placeholder that becomes current is eventually in ImagesReady or in Error
\* and never remains pending forever, under any interleaving with
\* navigation, selection, edits and slot retries: once every call has
\* settled and every timer has fired, so that only the user can still act,
\* no placeholder that became current is still being generated.
C39_SettledWhenIdle ==
    (Idle /\ view = "generation")
       => \A i \in Indices :
             BecameCurrent(i)
                => \/ ~Generating(imageReferences[i + 1])
                   \/ ImagesReady(imageReferences[i + 1])
                   \/ ErrorAt(i)

====
